---- MODULE Spec2Model ----
(***************************************************************************)
(* The cache scheduler of mission-backend-rs (CacheManager, one worker     *)
(* thread behind a bounded channel) together with the three generators it  *)
(* dispatches to (MissionRaw, MissionKPIRaw, GlobalKPIState), the          *)
(* relational store they read and the cache store they write.              *)
(*                                                                         *)
(* Snapshot values are kept as the inputs they were computed from, so that *)
(* "computed from" and "stale" are facts of the state.                     *)
(***************************************************************************)
EXTENDS Integers, Sequences, FiniteSets, TLC

VARIABLES
    queue,          \* the sync_channel buffer: requests accepted, not yet received
    workerPc,       \* position of the cache manager thread in its loop
    job,            \* cache_type of the loop iteration in progress
    result,         \* result of update_cache of the iteration in progress
    working,        \* CacheManager.working
    cache_status,   \* CacheManager.cache_status
    contextLock,    \* owner of the cache_context mutex
    statusLock,     \* owner of the cache_status mutex
    context,        \* CacheContext: mapping and kpi_config
    db,             \* relational store: mission id -> content of its rows
    redis,          \* cache store: mission_raw:<id>, mission_kpi_raw:<id>, global_kpi_state
    idSnap,         \* missions whose ids IDMapping::load_from_db has seen (MissionRaw job)
    ret,            \* what the last try_schedule / try_schedule_all call returned
    allNext,        \* try_schedule_all in progress: index of the kind it sends next
    allSent,        \* kinds the current / last try_schedule_all call enqueued
    executing,      \* generations in flight (one entry per update_cache call not yet returned)
    jobStart,       \* the cache store as it was when the current update_cache call began
    chain,          \* length of the current run MissionRaw, MissionKPIRaw, GlobalKPIState of
                    \* successful jobs with no change of rows or context since it began
    dirty,          \* rows or context changed since the job in progress was received
    budget          \* what the environment may still do (calls, changes, faults)

vars == <<queue, workerPc, job, result, working, cache_status, contextLock, statusLock,
          context, db, redis, idSnap, ret, allNext, allSent, executing, jobStart,
          chain, dirty, budget>>

----------------------------------------------------------------------------
(* Bounds of the model *)

MaxMissions == 2
MaxMapping == 2
MaxConfig == 1
MaxCalls == 2
MaxChanges == 2
MaxFaults == 1
LiveCalls == 1
MaxPlayers == 2
MaxAmount == 1
MaxRows == 2
MaxCount == 1
MaxKills == 2

(* Program constants *)

QueueCapacity == 8

----------------------------------------------------------------------------
(* Types *)

MissionRaw == "MissionRaw"
MissionKPIRaw == "MissionKPIRaw"
GlobalKPIState == "GlobalKPIState"

CacheType == {MissionRaw, MissionKPIRaw, GlobalKPIState}

cache_type_list == <<MissionRaw, MissionKPIRaw, GlobalKPIState>>

Missions == 1..MaxMissions

standard_character == {"Driller", "Engineer", "Gunner", "Scout"}

\* The rows of one mission, as far as the generators tell them apart: which
\* standard roles its players have.
Rosters == {"AllFour", "DrillerEngineer"}

RolesOf(rows) ==
    IF rows = "AllFour" THEN standard_character ELSE {"Driller", "Engineer"}

NoMission == "NoMission"
Nil == [nil |-> TRUE]
NoConfig == 0
NoJob == "NoJob"
NoResult == [outcome |-> "NoResult"]
Never == "Never"

Ok == "Ok"
InternalError == "InternalError"
ConfigError == "ConfigError"
Panic == "Panic"

Accepted == "Accepted"
Busy == "Busy"
Dead == "Dead"

----------------------------------------------------------------------------
(* The cache store and the snapshot values *)

\* The missions the relational store holds, in the order a query returns them.
MissionList(dbv) == {m \in Missions : dbv[m] # NoMission}

\* MissionCachedInfo::generate: the snapshot of one mission, made from its rows
\* and the mapping tables (entity_blacklist_set, entity_combine, weapon_combine).
MissionCachedInfo_generate(rows, mapping) == [rows |-> rows, mapping |-> mapping]

\* MissionKPICachedInfo::generate: the KPI snapshot of one mission, made from its
\* MissionCachedInfo, the kpi_config and the mapping's scout_special_player_set.
MissionKPICachedInfo_generate(mission_info, kpi_config, mapping) ==
    [raw |-> mission_info, kpi_config |-> kpi_config, mapping |-> mapping]

\* The roles that have data in the snapshots the global state is generated from
\* (character_correction_factor's keys).
RolesWithData(cached_mission_list) ==
    UNION {RolesOf(cached_mission_list[m].rows) : m \in DOMAIN cached_mission_list}

\* CachedGlobalKPIState::generate unwraps character_correction_factor.get(character)
\* for each of the four standard characters: with at least one mission and a
\* standard character without data the call panics.
CachedGlobalKPIState_panics(cached_mission_list) ==
    /\ DOMAIN cached_mission_list # {}
    /\ RolesWithData(cached_mission_list) # standard_character

\* CachedGlobalKPIState::generate: the global state, made from every cached
\* MissionCachedInfo and MissionKPICachedInfo, the kpi_config and the mapping.
CachedGlobalKPIState_generate(cached_mission_list, cached_mission_kpi_list, kpi_config, mapping) ==
    [raws |-> cached_mission_list, kpis |-> cached_mission_kpi_list,
     kpi_config |-> kpi_config, mapping |-> mapping]

EmptyRedis ==
    [raw |-> [m \in Missions |-> Nil], kpi |-> [m \in Missions |-> Nil], global |-> Nil]

\* A write loop that leaves a key that already holds a value as it is.
WriteAllIfAbsent(field, r, entries, failAt) ==
    [r EXCEPT ![field] = [m \in Missions |->
        IF m \in DOMAIN entries /\ r[field][m] = Nil /\ failAt = 0
          THEN entries[m] ELSE r[field][m]]]

\* The write loop of generate_and_write: cache_write_redis for each entry in
\* turn; a failing write ends the loop with the earlier entries written.
\* failAt = 0: no write fails; failAt = k: the k-th write fails.
WriteAll(field, r, entries, failAt) ==
    LET keys == DOMAIN entries
        written == IF failAt = 0 THEN keys
                   ELSE {m \in keys : Cardinality({n \in keys : n < m}) < failAt - 1}
    IN  [r EXCEPT ![field] = [m \in Missions |->
            IF m \in written THEN entries[m] ELSE r[field][m]]]

\* A write of global_kpi_state that leaves a value already stored as it is.
cache_write_redis_if_absent(r, data) ==
    IF r.global = Nil THEN [r EXCEPT !.global = data] ELSE r

\* cache_write_redis(&cache_result, "global_kpi_state", ..): one SET.
cache_write_redis(r, data) == [r EXCEPT !.global = data]

----------------------------------------------------------------------------
(* Store faults: where, in one update_cache call, a store fails *)

NoFault == [at |-> "none", k |-> 0]

FaultPoints == {"conn", "db_read", "redis_read"}

Faults(n) ==
    {NoFault} \cup
    (IF n > 0
       THEN [at : FaultPoints, k : {0}] \cup [at : {"redis_write"}, k : 1..MaxMissions]
       ELSE {})

Outcome(o, r, t) == [outcome |-> o, redis |-> r, touched |-> t]

----------------------------------------------------------------------------
(* The generators: Cacheable::generate_and_write *)

\* get_db_redis_conn
get_db_redis_conn(fault) ==
    IF fault.at = "conn" THEN InternalError ELSE Ok

\* MissionCachedInfo::generate_and_write, after IDMapping::load_from_db:
\* from_db_all loads and groups the rows and generates every snapshot (an
\* id that the id mapping lacks panics on unwrap), then the write loop runs.
MissionCachedInfo_generate_and_write(ctx, dbv, r, ids, fault, missingId) ==
    LET list == MissionList(dbv)
        generated == [m \in list |-> MissionCachedInfo_generate(dbv[m], ctx.mapping)]
        failAt == IF fault.at = "redis_write" /\ fault.k <= Cardinality(list)
                    THEN fault.k ELSE 0
    IN  IF fault.at = "db_read" THEN Outcome(InternalError, r, TRUE)
        ELSE IF missingId /\ list \ ids # {} THEN Outcome(Panic, r, TRUE)
        ELSE Outcome(IF failAt = 0 THEN Ok ELSE InternalError,
                     WriteAll("raw", r, generated, failAt), TRUE)

\* A generator that derives the entries of the missions that have a mission_raw
\* entry and passes over the others.
MissionKPICachedInfo_generate_and_write_cached_only(ctx, dbv, r, fault) ==
    LET list == {m \in MissionList(dbv) : r.raw[m] # Nil}
        generated == [m \in list |->
            MissionKPICachedInfo_generate(r.raw[m], ctx.kpi_config, ctx.mapping)]
    IN  IF get_db_redis_conn(fault) # Ok THEN Outcome(InternalError, r, FALSE)
        ELSE IF fault.at \in {"db_read", "redis_read", "redis_write"}
            THEN Outcome(InternalError, r, TRUE)
        ELSE IF ctx.kpi_config = NoConfig THEN Outcome(ConfigError, r, TRUE)
        ELSE Outcome(Ok, WriteAll("kpi", r, generated, 0), TRUE)

\* MissionKPICachedInfo::generate_and_write: connections, character and player
\* lists, then the kpi_config, then from_redis_all and the write loop.
MissionKPICachedInfo_generate_and_write(ctx, dbv, r, fault) ==
    LET list == MissionList(dbv)
        generated == [m \in list |->
            MissionKPICachedInfo_generate(r.raw[m], ctx.kpi_config, ctx.mapping)]
        failAt == IF fault.at = "redis_write" /\ fault.k <= Cardinality(list)
                    THEN fault.k ELSE 0
    IN  IF get_db_redis_conn(fault) # Ok THEN Outcome(InternalError, r, FALSE)
        ELSE IF fault.at = "db_read" THEN Outcome(InternalError, r, TRUE)
        ELSE IF ctx.kpi_config = NoConfig THEN Outcome(ConfigError, r, TRUE)
        ELSE IF fault.at = "redis_read" THEN Outcome(InternalError, r, TRUE)
        ELSE IF \E m \in list : r.raw[m] = Nil THEN Outcome(InternalError, r, TRUE)
        ELSE Outcome(IF failAt = 0 THEN Ok ELSE InternalError,
                     WriteAll("kpi", r, generated, failAt), TRUE)

\* CachedGlobalKPIState::generate_and_write: the kpi_config first, then the
\* connections, the lists, from_redis_all (both snapshot layers of every
\* mission of the relational store), generate, and one write.
CachedGlobalKPIState_generate_and_write(ctx, dbv, r, fault) ==
    LET list == MissionList(dbv)
        raws == [m \in list |-> r.raw[m]]
        kpis == [m \in list |-> r.kpi[m]]
    IN  IF ctx.kpi_config = NoConfig THEN Outcome(ConfigError, r, FALSE)
        ELSE IF get_db_redis_conn(fault) # Ok THEN Outcome(InternalError, r, FALSE)
        ELSE IF fault.at \in {"db_read", "redis_read"} THEN Outcome(InternalError, r, TRUE)
        ELSE IF \E m \in list : r.raw[m] = Nil \/ r.kpi[m] = Nil
            THEN Outcome(InternalError, r, TRUE)
        ELSE IF CachedGlobalKPIState_panics(raws) THEN Outcome(Panic, r, TRUE)
        ELSE IF fault.at = "redis_write" THEN Outcome(InternalError, r, TRUE)
        ELSE Outcome(Ok,
                     cache_write_redis(r,
                         CachedGlobalKPIState_generate(raws, kpis, ctx.kpi_config, ctx.mapping)),
                     TRUE)

----------------------------------------------------------------------------
(* The scheduler: CacheManager *)

\* CacheType::update_cache: the dispatch to the three generators.
update_cache(cache_type, ctx, dbv, r, ids, fault, missingId) ==
    IF cache_type = MissionRaw
        THEN MissionCachedInfo_generate_and_write(ctx, dbv, r, ids, fault, missingId)
    ELSE IF cache_type = MissionKPIRaw
        THEN MissionKPICachedInfo_generate_and_write(ctx, dbv, r, fault)
    ELSE CachedGlobalKPIState_generate_and_write(ctx, dbv, r, fault)

\* A send that makes room in a full channel by dropping its oldest request.
try_schedule_overwrite(q, cache_type, disconnected) ==
    IF disconnected THEN [queue |-> q, ret |-> Dead]
    ELSE IF Len(q) < QueueCapacity THEN [queue |-> Append(q, cache_type), ret |-> Accepted]
    ELSE [queue |-> Append(Tail(q), cache_type), ret |-> Accepted]

\* SyncSender::try_send on sync_channel(8), as try_schedule reads its result:
\* Ok(true), Ok(false) for TrySendError::Full, Err(()) for Disconnected.
try_schedule(q, cache_type, disconnected) ==
    IF disconnected THEN [queue |-> q, ret |-> Dead]
    ELSE IF Len(q) < QueueCapacity THEN [queue |-> Append(q, cache_type), ret |-> Accepted]
    ELSE [queue |-> q, ret |-> Busy]

\* A receiver that outlives the worker thread.
ReceiverKeptAlive == FALSE

\* The receiver is dropped when the worker thread ends.
Disconnected == workerPc = "dead"

\* rx.recv() is called at the top of the loop only: the worker receives the next
\* request when no iteration is in progress.
WorkerWaiting == workerPc = "recv"

\* The head of the channel is what recv returns.
recv(q) == [cache_type |-> Head(q), queue |-> Tail(q)]

\* The worker has received a request whose loop iteration has not ended.
JobInProgress == workerPc \notin {"recv", "dead"}

CanCall == (~budget.bounded) \/ budget.calls > 0
SpendCall == IF budget.bounded THEN [budget EXCEPT !.calls = @ - 1] ELSE budget
CanChange == budget.bounded /\ budget.changes > 0
SpendChange == [budget EXCEPT !.changes = @ - 1]
SpendFault(fault) ==
    IF fault = NoFault THEN budget ELSE [budget EXCEPT !.faults = @ - 1]

Return(op, value) == [op |-> op, value |-> value]

schedulerVars == <<workerPc, job, result, working, cache_status, contextLock, statusLock>>
dataVars == <<context, db, redis, idSnap>>
historyVars == <<executing, jobStart, chain, dirty>>

\* CacheManager::try_schedule
TrySchedule(cache_type) ==
    /\ CanCall
    /\ LET sent == try_schedule(queue, cache_type, Disconnected)
       IN  /\ queue' = sent.queue
           /\ ret' = Return("try_schedule", sent.ret)
    /\ allSent' = IF allNext = 0 THEN <<>> ELSE allSent
    /\ budget' = SpendCall
    /\ UNCHANGED <<schedulerVars, dataVars, historyVars, allNext>>

\* A loop that goes on to the next kind whatever the send returned.
try_schedule_all_keep_going(i, sent) ==
    IF i < Len(cache_type_list) THEN i + 1 ELSE 0

\* The loop of try_schedule_all after the send of kind number i returned
\* `sent`: the next kind's number, or 0 when the call returns (the `?` and
\* the `return Ok(false)` leave the loop at the first send not accepted).
try_schedule_all_next(i, sent) ==
    IF sent = Accepted /\ i < Len(cache_type_list) THEN i + 1 ELSE 0

\* One turn of the loop of CacheManager::try_schedule_all: the first turn begins
\* a call, the others continue the call in progress.
TryScheduleAll ==
    /\ allNext > 0 \/ CanCall
    /\ LET i == IF allNext = 0 THEN 1 ELSE allNext
           sofar == IF allNext = 0 THEN <<>> ELSE allSent
           sent == try_schedule(queue, cache_type_list[i], Disconnected)
           next == try_schedule_all_next(i, sent.ret)
       IN  /\ queue' = sent.queue
           /\ allSent' = IF sent.ret = Accepted
                           THEN Append(sofar, cache_type_list[i]) ELSE sofar
           /\ allNext' = next
           /\ ret' = IF next # 0 THEN ret ELSE Return("try_schedule_all", sent.ret)
    /\ budget' = IF allNext = 0 THEN SpendCall ELSE budget
    /\ UNCHANGED <<schedulerVars, dataVars, historyVars>>

\* A loop that hands each request it receives to a thread of its own, which
\* calls update_cache without the loop waiting for it.
WorkerRecvSpawn ==
    /\ queue # <<>>
    /\ queue' = recv(queue).queue
    /\ executing' = Append(executing, recv(queue).cache_type)
    /\ UNCHANGED <<schedulerVars, dataVars, ret, allNext, allSent, jobStart, chain,
                   dirty, budget>>

\* while let Ok(cache_type) = rx.recv()
WorkerRecv ==
    /\ WorkerWaiting
    /\ queue # <<>>
    /\ queue' = recv(queue).queue
    /\ job' = recv(queue).cache_type
    /\ workerPc' = "dequeued"
    /\ dirty' = FALSE
    /\ UNCHANGED <<result, working, cache_status, contextLock, statusLock, dataVars,
                   ret, allNext, allSent, executing, jobStart, chain, budget>>

\* thread_working.store(true)
WorkerSetWorking ==
    /\ workerPc = "dequeued"
    /\ working' = TRUE
    /\ workerPc' = "flagged"
    /\ UNCHANGED <<queue, job, result, cache_status, contextLock, statusLock, dataVars,
                   ret, allNext, allSent, historyVars, budget>>

\* A loop that takes the status lock together with the context lock, before
\* update_cache.
WorkerLockBoth ==
    /\ workerPc = "flagged"
    /\ contextLock = "free"
    /\ statusLock = "free"
    /\ contextLock' = "worker"
    /\ statusLock' = "worker"
    /\ workerPc' = "locked"
    /\ executing' = Append(executing, job)
    /\ jobStart' = redis
    /\ UNCHANGED <<queue, job, result, working, cache_status, dataVars,
                   ret, allNext, allSent, chain, dirty, budget>>

\* let context = thread_cache_context.lock().unwrap(); update_cache is called next
WorkerLockContext ==
    /\ workerPc = "flagged"
    /\ contextLock = "free"
    /\ contextLock' = "worker"
    /\ workerPc' = "locked"
    /\ executing' = Append(executing, job)
    /\ jobStart' = redis
    /\ UNCHANGED <<queue, job, result, working, cache_status, statusLock, dataVars,
                   ret, allNext, allSent, chain, dirty, budget>>

\* The chain of fresh layers after a job of kind cache_type ended with outcome o.
ChainAfter(cache_type, o) ==
    IF o # Ok \/ dirty THEN 0
    ELSE IF cache_type = MissionRaw THEN 1
    ELSE IF cache_type = MissionKPIRaw /\ chain = 1 THEN 2
    ELSE IF cache_type = GlobalKPIState /\ chain = 2 THEN 3
    ELSE 0

RemoveOne(seq, x) ==
    LET i == CHOOSE j \in 1..Len(seq) : seq[j] = x
    IN  SubSeq(seq, 1, i - 1) \o SubSeq(seq, i + 1, Len(seq))

\* MissionCachedInfo::generate_and_write up to IDMapping::load_from_db: the
\* connections and the four id tables are read before the missions and their rows.
WorkerLoadIds ==
    /\ workerPc = "locked"
    /\ job = MissionRaw
    /\ \E fault \in Faults(budget.faults) :
        /\ fault.at \in {"none", "conn", "db_read"}
        /\ budget' = SpendFault(fault)
        /\ IF fault = NoFault
             THEN /\ idSnap' = MissionList(db)
                  /\ workerPc' = "idsLoaded"
                  /\ UNCHANGED <<result, executing, chain>>
             ELSE /\ result' = Outcome(InternalError, redis, fault.at = "db_read")
                  /\ workerPc' = "generated"
                  /\ executing' = RemoveOne(executing, job)
                  /\ chain' = 0
                  /\ UNCHANGED idSnap
    /\ UNCHANGED <<queue, job, working, cache_status, contextLock, statusLock,
                   context, db, redis, ret, allNext, allSent, jobStart, dirty>>

\* let result = cache_type.update_cache(&context): the generator runs; a panic
\* in it unwinds the worker thread, which drops the receiver (and the requests
\* still in the channel) and poisons the context mutex it holds.
WorkerUpdateCache ==
    /\ \/ workerPc = "locked" /\ job # MissionRaw
       \/ workerPc = "idsLoaded" /\ job = MissionRaw
    /\ \E fault \in Faults(budget.faults), missingId \in BOOLEAN :
        LET out == update_cache(job, context, db, redis, idSnap, fault, missingId)
        IN  /\ fault.at # "conn" \/ job # MissionRaw
            /\ budget' = SpendFault(fault)
            /\ executing' = RemoveOne(executing, job)
            /\ redis' = out.redis
            /\ idSnap' = {}
            /\ chain' = ChainAfter(job, out.outcome)
            /\ IF out.outcome = Panic
                 THEN /\ workerPc' = "dead"
                      /\ contextLock' = "poisoned"
                      /\ queue' = <<>>
                      /\ UNCHANGED result
                 ELSE /\ workerPc' = "generated"
                      /\ result' = out
                      /\ UNCHANGED <<contextLock, queue>>
    /\ UNCHANGED <<job, working, cache_status, statusLock, context, db,
                   ret, allNext, allSent, jobStart, dirty>>

\* A loop that stores a fresh table holding only the finished job's outcome.
WorkerRecordClearOthers ==
    /\ workerPc = "generated"
    /\ statusLock = "free"
    /\ statusLock' = "worker"
    /\ cache_status' = [k \in CacheType |-> IF k = job THEN result.outcome ELSE Never]
    /\ workerPc' = "recorded"
    /\ UNCHANGED <<queue, job, result, working, contextLock, dataVars,
                   ret, allNext, allSent, historyVars, budget>>

\* let mut cache_status = thread_cache_status.lock().unwrap();
\* cache_status.insert(cache_type, (timestamp, result))
WorkerRecord ==
    /\ workerPc = "generated"
    /\ statusLock = "free"
    /\ statusLock' = "worker"
    /\ cache_status' = [cache_status EXCEPT ![job] = result.outcome]
    /\ workerPc' = "recorded"
    /\ UNCHANGED <<queue, job, result, working, contextLock, dataVars,
                   ret, allNext, allSent, historyVars, budget>>

\* thread_working.store(false)
WorkerClearWorking ==
    /\ workerPc = "recorded"
    /\ working' = FALSE
    /\ workerPc' = "cleared"
    /\ UNCHANGED <<queue, job, result, cache_status, contextLock, statusLock, dataVars,
                   ret, allNext, allSent, historyVars, budget>>

\* An end of the loop body that drops the status guard only.
WorkerUnlockStatusOnly ==
    /\ workerPc = "cleared"
    /\ statusLock' = "free"
    /\ workerPc' = "recv"
    /\ job' = NoJob
    /\ result' = NoResult
    /\ jobStart' = EmptyRedis
    /\ UNCHANGED <<queue, working, cache_status, contextLock, dataVars,
                   ret, allNext, allSent, executing, chain, dirty, budget>>

\* The end of the loop body: the two guards are dropped, the status guard first.
WorkerUnlock ==
    /\ workerPc = "cleared"
    /\ statusLock' = "free"
    /\ contextLock' = "free"
    /\ workerPc' = "recv"
    /\ job' = NoJob
    /\ result' = NoResult
    /\ jobStart' = EmptyRedis
    /\ UNCHANGED <<queue, working, cache_status, dataVars,
                   ret, allNext, allSent, executing, chain, dirty, budget>>

----------------------------------------------------------------------------
(* The environment: request handlers that change the rows or the context *)

\* load_mission: the rows of a new mission are inserted.
LoadMission(m, rows) ==
    /\ CanChange
    /\ db[m] = NoMission
    /\ db' = [db EXCEPT ![m] = rows]
    /\ budget' = SpendChange
    /\ chain' = 0
    /\ dirty' = JobInProgress
    /\ UNCHANGED <<queue, schedulerVars, context, redis, idSnap,
                   ret, allNext, allSent, executing, jobStart>>

\* delete_mission: the rows of a mission are deleted; its cache keys stay.
DeleteMission(m) ==
    /\ CanChange
    /\ db[m] # NoMission
    /\ db' = [db EXCEPT ![m] = NoMission]
    /\ budget' = SpendChange
    /\ chain' = 0
    /\ dirty' = JobInProgress
    /\ UNCHANGED <<queue, schedulerVars, context, redis, idSnap,
                   ret, allNext, allSent, executing, jobStart>>

\* An update that writes the mapping without taking the context lock.
UpdateMappingUnlocked(mapping) ==
    /\ CanChange
    /\ context' = [context EXCEPT !.mapping = mapping]
    /\ budget' = SpendChange
    /\ chain' = 0
    /\ dirty' = JobInProgress
    /\ UNCHANGED <<queue, schedulerVars, db, redis, idSnap,
                   ret, allNext, allSent, executing, jobStart>>

\* CacheManager::update_mapping
UpdateMapping(mapping) ==
    /\ CanChange
    /\ contextLock = "free"
    /\ context' = [context EXCEPT !.mapping = mapping]
    /\ budget' = SpendChange
    /\ chain' = 0
    /\ dirty' = JobInProgress
    /\ UNCHANGED <<queue, schedulerVars, db, redis, idSnap,
                   ret, allNext, allSent, executing, jobStart>>

\* CacheManager::update_kpi_config
UpdateKpiConfig(kpi_config) ==
    /\ CanChange
    /\ contextLock = "free"
    /\ context' = [context EXCEPT !.kpi_config = kpi_config]
    /\ budget' = SpendChange
    /\ chain' = 0
    /\ dirty' = JobInProgress
    /\ UNCHANGED <<queue, schedulerVars, db, redis, idSnap,
                   ret, allNext, allSent, executing, jobStart>>

----------------------------------------------------------------------------
(* Readers: request handlers that read the context or the status table *)

\* The generation in flight, if any.
Generating == IF Len(executing) = 1 THEN job ELSE NoJob

\* What a reader returned, and the generation that was in flight when it did.
Reply(op, value) == [op |-> op, reply |-> value, during |-> Generating]

\* self.cache_context.lock().unwrap(): returns once the worker does not hold the
\* mutex; panics on a mutex poisoned by a panic of the worker.
LockedContext(value) ==
    IF contextLock = "poisoned" THEN [panic |-> TRUE] ELSE [ok |-> value]

\* CacheManager::get_mapping
GetMapping ==
    /\ contextLock # "worker"
    /\ ret' = Reply("get_mapping", LockedContext(context.mapping))
    /\ UNCHANGED <<queue, schedulerVars, dataVars, historyVars, allNext, allSent, budget>>

\* CacheManager::get_kpi_config
GetKpiConfig ==
    /\ contextLock # "worker"
    /\ ret' = Reply("get_kpi_config", LockedContext(context.kpi_config))
    /\ UNCHANGED <<queue, schedulerVars, dataVars, historyVars, allNext, allSent, budget>>

\* CacheManager::get_cache_status
GetCacheStatus(cache_type) ==
    /\ statusLock = "free"
    /\ ret' = Reply("get_cache_status", cache_status[cache_type])
    /\ UNCHANGED <<queue, schedulerVars, dataVars, historyVars, allNext, allSent, budget>>

\* CacheManager::get_cache_status_all
GetCacheStatusAll ==
    /\ statusLock = "free"
    /\ ret' = Reply("get_cache_status_all", cache_status)
    /\ UNCHANGED <<queue, schedulerVars, dataVars, historyVars, allNext, allSent, budget>>

Readers ==
    \/ GetMapping
    \/ GetKpiConfig
    \/ \E cache_type \in CacheType : GetCacheStatus(cache_type)
    \/ GetCacheStatusAll

----------------------------------------------------------------------------
(* Specifications *)

InitScheduler ==
    /\ queue = <<>>
    /\ workerPc = "recv"
    /\ job = NoJob
    /\ result = NoResult
    /\ working = FALSE
    /\ cache_status = [k \in CacheType |-> Never]
    /\ contextLock = "free"
    /\ statusLock = "free"
    /\ idSnap = {}
    /\ ret = Return("none", "None")
    /\ allNext = 0
    /\ allSent = <<>>
    /\ executing = <<>>
    /\ jobStart = EmptyRedis
    /\ chain = 0
    /\ dirty = FALSE

\* A fresh installation: no mission loaded, nothing cached, no kpi_config.
Init ==
    /\ InitScheduler
    /\ context \in [mapping : {1}, kpi_config : {NoConfig} \cup 1..MaxConfig]
    /\ db = [m \in Missions |-> NoMission]
    /\ redis = EmptyRedis
    /\ budget = [bounded |-> TRUE, calls |-> MaxCalls, changes |-> MaxChanges,
                 faults |-> MaxFaults]

Worker ==
    \/ WorkerRecv
    \/ WorkerSetWorking
    \/ WorkerLockContext
    \/ WorkerLoadIds
    \/ WorkerUpdateCache
    \/ WorkerRecord
    \/ WorkerClearWorking
    \/ WorkerUnlock

Callers ==
    \/ \E cache_type \in CacheType : TrySchedule(cache_type)
    \/ TryScheduleAll

Environment ==
    \/ \E m \in Missions, rows \in Rosters : LoadMission(m, rows)
    \/ \E m \in Missions : DeleteMission(m)
    \/ \E mapping \in 1..MaxMapping : UpdateMapping(mapping)
    \/ \E kpi_config \in 1..MaxConfig : UpdateKpiConfig(kpi_config)

Next == Worker \/ Callers \/ Environment

Spec == Init /\ [][Next]_vars

\* The channel under load: any number of schedule calls while the worker does
\* not drain (it receives one request and then stays inside update_cache, a
\* store call of unbounded duration).
InitQueue ==
    /\ InitScheduler
    /\ context = [mapping |-> 1, kpi_config |-> NoConfig]
    /\ db = [m \in Missions |-> NoMission]
    /\ redis = EmptyRedis
    /\ budget = [bounded |-> FALSE, calls |-> 0, changes |-> 0, faults |-> 0]

NextQueue == Callers \/ WorkerRecv \/ WorkerSetWorking \/ WorkerLockContext

SpecQueue == InitQueue /\ [][NextQueue]_vars

\* The worker thread under a fair scheduler: a short run of the program in
\* which every step the worker can take is eventually taken.
InitLive ==
    /\ InitScheduler
    /\ context \in [mapping : {1}, kpi_config : {NoConfig} \cup 1..MaxConfig]
    /\ db = [m \in Missions |-> NoMission]
    /\ redis = EmptyRedis
    /\ budget = [bounded |-> TRUE, calls |-> LiveCalls, changes |-> MaxChanges,
                 faults |-> 0]

SpecLive == InitLive /\ [][Next]_vars /\ WF_vars(Worker)

\* The scheduler with its readers: every caller-side operation of CacheManager
\* next to the worker, on a short run.
NextReaders == Next \/ Readers

SpecReaders == InitLive /\ [][NextReaders]_vars

----------------------------------------------------------------------------
(* The two mutexes with the callers' critical sections as steps of their own *)

\* self.cache_context.lock() of get_mapping, get_kpi_config, update_mapping or
\* update_kpi_config returns: the caller holds the context mutex.  On a
\* poisoned mutex the unwrap panics in the caller.
CallerLockContext ==
    /\ contextLock \in {"free", "poisoned"}
    /\ IF contextLock = "poisoned"
         THEN /\ ret' = Reply("cache_context.lock", [panic |-> TRUE])
              /\ UNCHANGED contextLock
         ELSE /\ contextLock' = "caller"
              /\ UNCHANGED ret
    /\ UNCHANGED <<queue, workerPc, job, result, working, cache_status, statusLock,
                   dataVars, historyVars, allNext, allSent, budget>>

\* The caller clones the field it asked for and drops the guard.
CallerUnlockContext ==
    /\ contextLock = "caller"
    /\ contextLock' = "free"
    /\ \E op \in {"get_mapping", "get_kpi_config"} :
          ret' = Reply(op, [ok |-> IF op = "get_mapping" THEN context.mapping
                                                         ELSE context.kpi_config])
    /\ UNCHANGED <<queue, workerPc, job, result, working, cache_status, statusLock,
                   dataVars, historyVars, allNext, allSent, budget>>

\* self.cache_status.lock() of get_cache_status or get_cache_status_all returns.
CallerLockStatus ==
    /\ statusLock = "free"
    /\ statusLock' = "caller"
    /\ UNCHANGED <<queue, workerPc, job, result, working, cache_status, contextLock,
                   dataVars, historyVars, ret, allNext, allSent, budget>>

\* The caller clones the table and drops the guard.
CallerUnlockStatus ==
    /\ statusLock = "caller"
    /\ statusLock' = "free"
    /\ ret' = Reply("get_cache_status_all", cache_status)
    /\ UNCHANGED <<queue, workerPc, job, result, working, cache_status, contextLock,
                   dataVars, historyVars, allNext, allSent, budget>>

CallerSections ==
    \/ CallerLockContext
    \/ CallerUnlockContext
    \/ CallerLockStatus
    \/ CallerUnlockStatus

NextLocks == Next \/ CallerSections

SpecLocks == InitLive /\ [][NextLocks]_vars

----------------------------------------------------------------------------
(* The read side: get_from_redis, as try_get_cached calls it for a key *)

NoData == "NoData"
MalformedData == "MalformedData"

\* The keys of the cache store: mission_raw:m, mission_kpi_raw:m, global_kpi_state.
RedisKeys == ({"raw", "kpi"} \X Missions) \cup {<<"global", 0>>}

\* What the store holds under a key: Nil for a key never written.
Stored(r, key) == IF key[1] = "global" THEN r.global ELSE r[key[1]][key[2]]

\* What goes wrong in one read: the EXISTS command fails (the store cannot be
\* reached), the GET command fails, or the bytes under the key do not decode.
ReadFaults == {"none", "exists", "get", "undecodable"}

\* get_from_redis.  exists::<_, ()> discards the answer, so only a failing
\* command ends the read there; GET of a key that does not exist answers nil,
\* which the client converts to Vec<u8> either as no bytes (nilIsEmpty: the
\* decoder then fails) or as a conversion error.
get_from_redis(entry, fault, nilIsEmpty) ==
    IF fault = "exists" THEN [err |-> NoData]
    ELSE IF fault = "get" THEN [err |-> InternalError]
    ELSE IF entry = Nil
        THEN (IF nilIsEmpty THEN [err |-> MalformedData] ELSE [err |-> InternalError])
    ELSE IF fault = "undecodable" THEN [err |-> MalformedData]
    ELSE [ok |-> entry]

\* A consumer reads a key: try_get_cached.
TryGetCached(key) ==
    \E fault \in ReadFaults, nilIsEmpty \in BOOLEAN :
        /\ ret' = [op |-> "get_from_redis", key |-> key, stored |-> Stored(redis, key),
                   fault |-> fault,
                   result |-> get_from_redis(Stored(redis, key), fault, nilIsEmpty)]
        /\ UNCHANGED <<queue, schedulerVars, dataVars, historyVars, allNext, allSent, budget>>

Consumers == \E key \in RedisKeys : TryGetCached(key)

NextStore == Next \/ Consumers

\* The scheduler with the consumers of the cache, on a short run: a configured
\* installation, one schedule call, MaxChanges changes.
InitStore ==
    /\ InitScheduler
    /\ context = [mapping |-> 1, kpi_config |-> 1]
    /\ db = [m \in Missions |-> NoMission]
    /\ redis = EmptyRedis
    /\ budget = [bounded |-> TRUE, calls |-> LiveCalls, changes |-> MaxChanges, faults |-> 0]

SpecStore == InitStore /\ [][NextStore]_vars

----------------------------------------------------------------------------
(* The Mission Aggregator in detail: MissionCachedInfo::generate on the rows *)
(* of one mission.  Rows carry the game ids that the id tables give for    *)
(* their ids; amounts and counts are integers.                             *)

Players == 1..MaxPlayers

\* Amounts (f64) are counted in units of half a thousandth: FLOAT_EPSILON, 1e-3,
\* is two units and 1.0 is One.
FLOAT_EPSILON == 2

One == 1000 * FLOAT_EPSILON

\* The amounts of damage and resource rows: one below FLOAT_EPSILON, the others
\* whole.
Amounts == {1} \cup {a * One : a \in 1..MaxAmount}

Entities == {"ENEMY_A", "ENEMY_GROUP", "ENEMY_B"}

NITRA_GAME_ID == "RES_VEIN_Nitra"

Resources == {NITRA_GAME_ID, "RES_VEIN_Gold"}

\* id_to_player_name: the name is the key of a player taker in damage_info.
id_to_player_name(player_id) == "player_" \o ToString(player_id)

\* The rows of the kill_info, damage_info, resource_info and supply_info tables.
KillInfo == [kind : {"kill"}, player_id : Players, entity : Entities]

DamageInfo ==
    [kind : {"damage"}, causer_type : {1, 2}, causer_id : Players,
     taker_type : {2}, taker : Entities, damage : Amounts]
    \cup
    [kind : {"damage"}, causer_type : {1}, causer_id : Players,
     taker_type : {1}, taker : Players, damage : Amounts]

ResourceInfo ==
    [kind : {"resource"}, player_id : Players, resource : Resources, amount : Amounts]

SupplyInfo == [kind : {"supply"}, player_id : Players]

RowLists(n) ==
    UNION {[1..k -> KillInfo \cup DamageInfo \cup ResourceInfo \cup SupplyInfo] : k \in 0..n}

\* character_id_to_game_id of the character a player plays.
character_game_id(player_id) ==
    CASE player_id = 1 -> "DRILLER"
      [] player_id = 2 -> "SCOUT"
      [] player_id = 3 -> "GUNNER"
      [] OTHER -> "ENGINEER"

\* The player_info rows of a mission: of player 1 alone, or of every player,
\* present for the whole mission, with revive and death numbers among counts.
PlayerInfoLists(counts) ==
    UNION {{list \in [d -> [player_id : d, character_id : {"DRILLER", "SCOUT"},
                            present_time : {1}, revive_num : counts, death_num : counts]] :
                \A p \in d : /\ list[p].player_id = p
                              /\ list[p].character_id = character_game_id(p)} :
              d \in {{1}, Players}}

\* The entity_combine tables and entity_blacklist_sets of the model.
EntityCombineTables ==
    {[e \in d |-> "ENEMY_GROUP"] : d \in {{}, {"ENEMY_A"}, {"ENEMY_A", "ENEMY_B"}}}
    \cup {[e \in {"ENEMY_A", "ENEMY_GROUP"} |->
              IF e = "ENEMY_A" THEN "ENEMY_GROUP" ELSE "ENEMY_B"]}
    \cup {[e \in {"ENEMY_A", "ENEMY_B"} |->
              IF e = "ENEMY_A" THEN "ENEMY_GROUP" ELSE "ENEMY_A"]}

EntityBlacklists == {{}, {"ENEMY_A"}, {"ENEMY_GROUP"}, {"ENEMY_B"}}

Mappings == [entity_blacklist_set : EntityBlacklists, entity_combine : EntityCombineTables]

\* A key looked up without combining.
entity_combine_none(entity_combine, record_entity_game_id) == record_entity_game_id

\* entity_combine.get(record_entity_game_id).unwrap_or(record_entity_game_id)
entity_combine_get(entity_combine, record_entity_game_id) ==
    IF record_entity_game_id \in DOMAIN entity_combine
      THEN entity_combine[record_entity_game_id]
      ELSE record_entity_game_id

EmptyMap == [x \in {} |-> 0]

MapGet(map, key, default) == IF key \in DOMAIN map THEN map[key] ELSE default

MapPut(map, key, value) == [k \in DOMAIN map \cup {key} |-> IF k = key THEN value ELSE map[k]]

\* outer.entry(player).or_insert(HashMap::new()).entry(key).or_insert(0) += amount
AddAmount(outer, player, key, amount) ==
    LET inner == MapGet(outer, player, EmptyMap)
    IN  MapPut(outer, player, MapPut(inner, key, MapGet(inner, key, 0) + amount))

RowsOfKind(rows, kind) == SelectSeq(rows, LAMBDA r : r.kind = kind)

RECURSIVE kill_info(_, _, _)
\* The loop over raw_kill_info_list.
kill_info(raw_kill_info_list, mapping, acc) ==
    IF raw_kill_info_list = <<>> THEN acc
    ELSE LET current_kill_info == Head(raw_kill_info_list)
             killed_entity_game_id ==
                 entity_combine_get(mapping.entity_combine, current_kill_info.entity)
         IN  kill_info(Tail(raw_kill_info_list), mapping,
                 IF killed_entity_game_id \in mapping.entity_blacklist_set
                   THEN acc
                   ELSE AddAmount(acc, current_kill_info.player_id, killed_entity_game_id, 1))

\* player_damage_map.entry(taker_game_id).or_insert(DamagePack {..}).total_amount += damage
AddDamage(outer, causer_id, taker_game_id, taker_id, taker_type, damage) ==
    LET inner == MapGet(outer, causer_id, EmptyMap)
        pack == MapGet(inner, taker_game_id,
                       [taker_id |-> taker_id, taker_type |-> taker_type, total_amount |-> 0])
    IN  MapPut(outer, causer_id,
               MapPut(inner, taker_game_id, [pack EXCEPT !.total_amount = @ + damage]))

RECURSIVE damage_info(_, _, _)
\* The loop over raw_damage_info_list.
damage_info(raw_damage_info_list, mapping, acc) ==
    IF raw_damage_info_list = <<>> THEN acc
    ELSE LET current_damage_info == Head(raw_damage_info_list)
             rest == Tail(raw_damage_info_list)
             entity_game_id ==
                 entity_combine_get(mapping.entity_combine, current_damage_info.taker)
         IN  IF current_damage_info.causer_type # 1
               THEN damage_info(rest, mapping, acc)
             ELSE IF current_damage_info.taker_type = 1
               THEN damage_info(rest, mapping,
                        AddDamage(acc, current_damage_info.causer_id,
                                  id_to_player_name(current_damage_info.taker),
                                  current_damage_info.taker, 1,
                                  current_damage_info.damage))
             ELSE IF entity_game_id \in mapping.entity_blacklist_set
               THEN damage_info(rest, mapping, acc)
             ELSE damage_info(rest, mapping,
                      AddDamage(acc, current_damage_info.causer_id, entity_game_id,
                                current_damage_info.taker, current_damage_info.taker_type, current_damage_info.damage))

RECURSIVE resource_info(_, _)
\* The loop over raw_resource_info_list.
resource_info(raw_resource_info_list, acc) ==
    IF raw_resource_info_list = <<>> THEN acc
    ELSE LET current_resource_info == Head(raw_resource_info_list)
         IN  resource_info(Tail(raw_resource_info_list),
                 AddAmount(acc, current_resource_info.player_id,
                           current_resource_info.resource, current_resource_info.amount))

RECURSIVE supply_info(_, _)
\* The loop over raw_supply_info_list: the number of SupplyPacks of each player.
supply_info(raw_supply_info_list, acc) ==
    IF raw_supply_info_list = <<>> THEN acc
    ELSE LET current_supply_info == Head(raw_supply_info_list)
         IN  supply_info(Tail(raw_supply_info_list),
                 MapPut(acc, current_supply_info.player_id,
                        MapGet(acc, current_supply_info.player_id, 0) + 1))

\* MissionCachedInfo::generate on the rows of one mission (weapon_damage_info
\* left out).
MissionCachedInfo(mission_raw_info, mapping) ==
    LET player_info_list == mission_raw_info.player_info
        rows == mission_raw_info.rows
    IN  [player_info  |-> player_info_list,
         player_index |-> [p \in DOMAIN player_info_list |-> player_info_list[p].present_time],
         revive_count |-> [p \in DOMAIN player_info_list |-> player_info_list[p].revive_num],
         death_count  |-> [p \in DOMAIN player_info_list |-> player_info_list[p].death_num],
         kill_info     |-> kill_info(RowsOfKind(rows, "kill"), mapping, EmptyMap),
         damage_info   |-> damage_info(RowsOfKind(rows, "damage"), mapping, EmptyMap),
         resource_info |-> resource_info(RowsOfKind(rows, "resource"), EmptyMap),
         supply_info   |-> supply_info(RowsOfKind(rows, "supply"), EmptyMap)]

\* One mission's rows, of any content the tables can hold, and any mapping.
InitAggregate ==
    /\ InitScheduler
    /\ context \in [mapping : Mappings, kpi_config : {NoConfig}]
    /\ db \in {[m \in Missions |-> IF m = 1 THEN [player_info |-> pl, rows |-> rows]
                                             ELSE NoMission] :
                  pl \in PlayerInfoLists({0}), rows \in RowLists(MaxRows)}
    /\ redis = EmptyRedis
    /\ budget = [bounded |-> TRUE, calls |-> 0, changes |-> 0, faults |-> 0]

\* from_db_all: the snapshot of the mission is generated from its rows.
GenerateMission ==
    /\ redis.raw[1] = Nil
    /\ redis' = [redis EXCEPT !.raw[1] = MissionCachedInfo(db[1], context.mapping)]
    /\ UNCHANGED <<queue, schedulerVars, context, db, idSnap, ret, allNext, allSent,
                   historyVars, budget>>

SpecAggregate == InitAggregate /\ [][GenerateMission]_vars

----------------------------------------------------------------------------
(* The per-mission KPI layer in detail: MissionKPICachedInfo::generate *)

KPIComponent ==
    {"Kill", "Damage", "Priority", "Revive", "Death", "FriendlyFire", "Nitra", "Supply",
     "Minerals"}

\* The weights of the weight tables: load_kpi stores the tables as uploaded.
Weights == {-1, 2}

WeightTable(key, weight) == IF weight = 0 THEN EmptyMap ELSE [k \in {key} |-> weight]

\* The weight configurations of the model: no table has an entry, or the
\* Driller's table weighs ENEMY_A, the priority table ENEMY_B and the resource
\* table gold.
KPIConfigs ==
    {[character_weight_table |-> [r \in {"Driller"} |-> WeightTable("ENEMY_A", w)],
      priority_table         |-> WeightTable("ENEMY_B", w),
      resource_weight_table  |-> WeightTable("RES_VEIN_Gold", w)] : w \in Weights \cup {0}}

ScoutSpecialPlayerSets == {{}, {id_to_player_name(2)}}

\* CharacterKPIType::from_player
from_player(character, player_name, scout_special_player_set) ==
    CASE character = "DRILLER" -> "Driller"
      [] character = "ENGINEER" -> "Engineer"
      [] character = "GUNNER" -> "Gunner"
      [] character = "SCOUT" ->
            IF player_name \in scout_special_player_set THEN "ScoutSpecial" ELSE "Scout"

RECURSIVE SumValues(_)
\* map.values().sum()
SumValues(map) ==
    IF DOMAIN map = {} THEN 0
    ELSE LET k == CHOOSE x \in DOMAIN map : TRUE
         IN  map[k] + SumValues([x \in DOMAIN map \ {k} |-> map[x]])

\* combine_player_info: the sum over the players of each inner key's value.
combine_player_info(origin_map) ==
    [key \in UNION {DOMAIN origin_map[p] : p \in DOMAIN origin_map} |->
        SumValues([p \in {q \in DOMAIN origin_map : key \in DOMAIN origin_map[q]} |->
                      origin_map[p][key]])]

\* combine_kill_info: kill_pack.total_amount as f64
combine_kill_info(origin) ==
    combine_player_info([p \in DOMAIN origin |-> [k \in DOMAIN origin[p] |-> origin[p][k] * One]])

\* combine_damage_info: a pack with a player taker counts 0.0.
combine_damage_info(origin) ==
    combine_player_info([p \in DOMAIN origin |-> [k \in DOMAIN origin[p] |->
        IF origin[p][k].taker_type = 1 THEN 0 ELSE origin[p][k].total_amount]])

\* combine_resource_info
combine_resource_info(origin) == combine_player_info(origin)

\* apply_weight_table: value * weight with an entry, the value without.
apply_weight_table(source, weight_table) ==
    [key \in DOMAIN source |->
        IF key \in DOMAIN weight_table THEN source[key] * weight_table[key] ELSE source[key]]

\* A raw_index: the quotient num / den, and whether a division produced it.
Value(num) == [num |-> num, den |-> 1, divided |-> FALSE]

Quotient(num, den) == [num |-> num, den |-> den, divided |-> TRUE]

\* match total { 0.0..FLOAT_EPSILON => fallback, _ => weighted / total }
raw_index(weighted, total, fallback) ==
    IF 0 <= total /\ total < FLOAT_EPSILON THEN Value(fallback) ELSE Quotient(weighted, total)

\* The index without its offset of 100.
friendly_fire_index_unshifted(player_friendly_fire, player_overall_damage) ==
    IF 100 * player_friendly_fire >= 91 * player_overall_damage
      THEN Value(-1000)
      ELSE Quotient(99 * player_overall_damage,
                    player_friendly_fire - player_overall_damage)

\* friendly_fire_index(player_friendly_fire / player_overall_damage), the
\* quotient 99.0 / (ff_rate - 1.0) + 100.0 brought to one fraction.
friendly_fire_index(player_friendly_fire, player_overall_damage) ==
    IF 100 * player_friendly_fire >= 91 * player_overall_damage
      THEN Value(-1000)
      ELSE Quotient(100 * player_friendly_fire - player_overall_damage,
                    player_friendly_fire - player_overall_damage)

PlayerRawKPIData(source_value, weighted_value, mission_total_weighted_value, index) ==
    [source_value |-> source_value, weighted_value |-> weighted_value,
     mission_total_weighted_value |-> mission_total_weighted_value, raw_index |-> index]

\* Only the players with kill rows get a record.
PlayersWithKills(mission_info) ==
    DOMAIN mission_info.player_info \cap DOMAIN mission_info.kill_info

\* for player_info in &mission_info.player_info
PlayersOfMission(mission_info) == DOMAIN mission_info.player_info

\* The body of the loop: the 9 components of one player.
player_raw_kpi_data(mission_info, player_id, role, kpi_config) ==
    LET damage_map == [p \in DOMAIN mission_info.damage_info |->
            [k \in {x \in DOMAIN mission_info.damage_info[p] :
                       mission_info.damage_info[p][x].taker_type # 1} |->
                mission_info.damage_info[p][k].total_amount]]
        kill_map == [p \in DOMAIN mission_info.kill_info |->
            [k \in DOMAIN mission_info.kill_info[p] |-> mission_info.kill_info[p][k] * One]]
        resource_map == mission_info.resource_info
        total_damage_map == combine_damage_info(mission_info.damage_info)
        total_kill_map == combine_kill_info(mission_info.kill_info)
        total_resource_map == combine_resource_info(mission_info.resource_info)
        player_info == mission_info.player_info[player_id]
        total_revive_count ==
            SumValues([p \in DOMAIN mission_info.player_info |->
                          mission_info.player_info[p].revive_num]) * One
        total_death_count ==
            SumValues([p \in DOMAIN mission_info.player_info |->
                          mission_info.player_info[p].death_num]) * One
        total_supply_count == SumValues(mission_info.supply_info) * One
        character_weight_table == MapGet(kpi_config.character_weight_table, role, EmptyMap)
        player_kills == MapGet(kill_map, player_id, EmptyMap)
        player_damages == MapGet(damage_map, player_id, EmptyMap)
        player_resources == MapGet(resource_map, player_id, EmptyMap)
        player_packs == MapGet(mission_info.damage_info, player_id, EmptyMap)
        source_kill == SumValues(player_kills)
        weighted_kill == SumValues(apply_weight_table(player_kills, character_weight_table))
        mission_total_weighted_kill ==
            SumValues(apply_weight_table(total_kill_map, character_weight_table))
        source_damage == SumValues(player_damages)
        weighted_damage == SumValues(apply_weight_table(player_damages, character_weight_table))
        mission_total_weighted_damage ==
            SumValues(apply_weight_table(total_damage_map, character_weight_table))
        priority_damage == SumValues(apply_weight_table(player_damages, kpi_config.priority_table))
        mission_total_priority_damage ==
            SumValues(apply_weight_table(total_damage_map, kpi_config.priority_table))
        player_revive_count == player_info.revive_num * One
        player_death_count == player_info.death_num * One
        player_friendly_fire ==
            SumValues([k \in {x \in DOMAIN player_packs :
                                 /\ player_packs[x].taker_type = 1
                                 /\ player_packs[x].taker_id # player_id} |->
                          player_packs[k].total_amount])
        player_overall_damage == source_damage + player_friendly_fire
        player_ff_index ==
            IF 0 <= player_overall_damage /\ player_overall_damage < FLOAT_EPSILON
              THEN Value(1)
              ELSE friendly_fire_index(player_friendly_fire, player_overall_damage)
        player_nitra == MapGet(player_resources, NITRA_GAME_ID, 0)
        total_nitra == MapGet(total_resource_map, NITRA_GAME_ID, 0)
        player_source_minerals == SumValues(player_resources)
        player_weighted_minerals ==
            SumValues(apply_weight_table(player_resources, kpi_config.resource_weight_table))
        total_weighted_minerals ==
            SumValues(apply_weight_table(total_resource_map, kpi_config.resource_weight_table))
        player_supply_count == MapGet(mission_info.supply_info, player_id, 0) * One
    IN  [component \in KPIComponent |->
            CASE component = "Kill" ->
                    PlayerRawKPIData(source_kill, weighted_kill, mission_total_weighted_kill,
                        raw_index(weighted_kill, mission_total_weighted_kill, 0))
              [] component = "Damage" ->
                    PlayerRawKPIData(source_damage, weighted_damage, mission_total_weighted_damage,
                        raw_index(weighted_damage, mission_total_weighted_damage, 0))
              [] component = "Priority" ->
                    PlayerRawKPIData(source_damage, priority_damage, mission_total_priority_damage,
                        raw_index(priority_damage, mission_total_priority_damage, 0))
              [] component = "Revive" ->
                    PlayerRawKPIData(player_revive_count, player_revive_count, total_revive_count,
                        raw_index(player_revive_count, total_revive_count, 1))
              [] component = "Death" ->
                    PlayerRawKPIData(player_death_count, player_death_count, total_death_count,
                        raw_index(-player_death_count, total_death_count, 0))
              [] component = "FriendlyFire" ->
                    PlayerRawKPIData(player_friendly_fire, player_ff_index, 0, player_ff_index)
              [] component = "Nitra" ->
                    PlayerRawKPIData(player_nitra, player_nitra, total_nitra,
                        raw_index(player_nitra, total_nitra, 0))
              [] component = "Minerals" ->
                    PlayerRawKPIData(player_source_minerals, player_weighted_minerals,
                        total_weighted_minerals,
                        raw_index(player_weighted_minerals, total_weighted_minerals, 0))
              [] component = "Supply" ->
                    PlayerRawKPIData(player_supply_count, player_supply_count, total_supply_count,
                        raw_index(-player_supply_count, total_supply_count, 0))]

\* MissionKPICachedInfo::generate (assigned_kpi_info left out).
MissionKPICachedInfo(mission_info, scout_special_player_set, kpi_config) ==
    LET role(p) == from_player(mission_info.player_info[p].character_id, id_to_player_name(p),
                               scout_special_player_set)
    IN  [player_id_to_kpi_character |-> [p \in PlayersOfMission(mission_info) |-> role(p)],
         raw_kpi_data |->
            [p \in PlayersOfMission(mission_info) |->
                player_raw_kpi_data(mission_info, p, role(p), kpi_config)]]

\* One mission's snapshot, generated from any rows, and any weight configuration.
InitKpi ==
    /\ InitScheduler
    /\ context \in [mapping : [entity_blacklist_set : {{}}, entity_combine : {EmptyMap},
                               scout_special_player_set : ScoutSpecialPlayerSets],
                    kpi_config : KPIConfigs]
    /\ db \in {[m \in Missions |-> IF m = 1 THEN [player_info |-> pl, rows |-> rows]
                                             ELSE NoMission] :
                  pl \in PlayerInfoLists(0..MaxCount), rows \in RowLists(MaxRows)}
    /\ redis = [EmptyRedis EXCEPT !.raw[1] = MissionCachedInfo(db[1], context.mapping)]
    /\ budget = [bounded |-> TRUE, calls |-> 0, changes |-> 0, faults |-> 0]

\* MissionKPICachedInfo::from_redis_all: the KPI snapshot of the mission is
\* derived from its snapshot.
GenerateMissionKPI ==
    /\ redis.raw[1] # Nil
    /\ redis.kpi[1] = Nil
    /\ redis' = [redis EXCEPT !.kpi[1] =
            MissionKPICachedInfo(redis.raw[1], context.mapping.scout_special_player_set,
                                 context.kpi_config)]
    /\ UNCHANGED <<queue, schedulerVars, context, db, idSnap, ret, allNext, allSent,
                   historyVars, budget>>

SpecKpi == InitKpi /\ [][GenerateMissionKPI]_vars

----------------------------------------------------------------------------
(* The global KPI state in detail: the correction factors of          *)
(* CachedGlobalKPIState::generate                                     *)

CORRECTION_ITEMS == {"Damage", "Priority", "Kill", "Nitra", "Minerals"}

\* The four players of the missions the factors are generated from.
Squad == 1..4

\* The rows of a player with kills kill rows for ENEMY_A, a damage row for
\* ENEMY_B of amount damage and a nitra row of amount nitra, if not 0.
PlayerRows(p, kills, damage, nitra) ==
    [i \in 1..kills |-> [kind |-> "kill", player_id |-> p, entity |-> "ENEMY_A"]]
    \o (IF damage = 0 THEN <<>>
        ELSE <<[kind |-> "damage", causer_type |-> 1, causer_id |-> p, taker_type |-> 2,
                taker |-> "ENEMY_B", damage |-> damage]>>)
    \o (IF nitra = 0 THEN <<>>
        ELSE <<[kind |-> "resource", player_id |-> p, resource |-> NITRA_GAME_ID,
                amount |-> nitra]>>)

\* The missions of the squad: every player present for the whole mission, with
\* up to MaxKills kills, one damage row and nitra mined or not.
SquadMissions ==
    {[player_info |-> [p \in Squad |->
                          [player_id |-> p, character_id |-> character_game_id(p),
                           present_time |-> 1, revive_num |-> 0, death_num |-> 0]],
      rows |-> PlayerRows(1, k[1], d[1], n[1]) \o PlayerRows(2, k[2], d[2], n[2])
                 \o PlayerRows(3, k[3], d[3], n[3]) \o PlayerRows(4, k[4], d[4], n[4])] :
        k \in [Squad -> 0..MaxKills], d \in [Squad -> {One}], n \in [Squad -> {0, One}]}

CharacterMissionInfo(mission, player_id, kpi_config) ==
    LET packs == MapGet(mission.damage_info, player_id, EmptyMap)
        player_damage_map ==
            [k \in {x \in DOMAIN packs : packs[x].taker_type # 1} |-> packs[k].total_amount]
        resources == MapGet(mission.resource_info, player_id, EmptyMap)
    IN  [player_index |-> mission.player_index[player_id],
         damage   |-> SumValues(player_damage_map),
         priority |-> SumValues(apply_weight_table(player_damage_map, kpi_config.priority_table)),
         kill     |-> SumValues(MapGet(mission.kill_info, player_id, EmptyMap)) * One,
         nitra    |-> SumValues([k \in DOMAIN resources \cap {NITRA_GAME_ID} |-> resources[k]]),
         resource |-> SumValues(resources)]

\* The field of a CharacterMissionInfo that a correction item averages.
ItemValue(info, item) ==
    CASE item = "Damage" -> info.damage
      [] item = "Priority" -> info.priority
      [] item = "Kill" -> info.kill
      [] item = "Nitra" -> info.nitra
      [] item = "Minerals" -> info.resource

\* a.partial_cmp(b) of two averages, quotients with positive denominators.
LessEq(a, b) == a.num * b.den <= b.num * a.den

\* The minimum that min_by finds.
MinValue(values) == CHOOSE v \in values : \A w \in values : LessEq(v, w)

\* value / min: den = 0 stands for infinity (num # 0) or NaN (num = 0).
correction_factor(value, min) == [num |-> value.num * min.den, den |-> value.den * min.num]

GeneratePanic == [panic |-> TRUE]

\* CachedGlobalKPIState::generate up to standard_correction_sum: the
\* character_correction_factor of the valid missions, a panic when a standard
\* character has no data.
CachedGlobalKPIState(cached_mission_list, kpi_config, scout_special_player_set) ==
    LET entries == {<<i, p>> : i \in 1..Len(cached_mission_list), p \in Squad}
        present == {e \in entries : e[2] \in DOMAIN cached_mission_list[e[1]].player_info}
        role(e) == from_player(cached_mission_list[e[1]].player_info[e[2]].character_id,
                               id_to_player_name(e[2]), scout_special_player_set)
        character_to_mission_info_list ==
            [r \in {role(e) : e \in present} |->
                [e \in {x \in present : role(x) = r} |->
                    CharacterMissionInfo(cached_mission_list[e[1]], e[2], kpi_config)]]
        roles == DOMAIN character_to_mission_info_list
        average ==
            [r \in roles |-> [item \in CORRECTION_ITEMS |->
                LET mission_info_list == character_to_mission_info_list[r]
                IN  [num |-> SumValues([e \in DOMAIN mission_info_list |->
                                           ItemValue(mission_info_list[e], item)]),
                     den |-> SumValues([e \in DOMAIN mission_info_list |->
                                           mission_info_list[e].player_index])]]]
        min == [item \in CORRECTION_ITEMS |-> MinValue({average[r][item] : r \in roles})]
    IN  IF cached_mission_list = <<>>
          THEN [character_correction_factor |-> EmptyMap]
        ELSE IF ~(standard_character \subseteq roles)
          THEN GeneratePanic
        ELSE [character_correction_factor |->
                [r \in roles |-> [item \in CORRECTION_ITEMS |->
                    [player_index |-> average[r][item].den,
                     value |-> average[r][item],
                     correction_factor |-> correction_factor(average[r][item], min[item])]]]]

\* One valid mission of the squad, its snapshot generated from its rows, and any
\* weight configuration.
InitGlobal ==
    /\ InitScheduler
    /\ context \in [mapping : [entity_blacklist_set : {{}}, entity_combine : {EmptyMap},
                               scout_special_player_set : ScoutSpecialPlayerSets],
                    kpi_config : KPIConfigs]
    /\ db \in {[m \in Missions |-> IF m = 1 THEN mission ELSE NoMission] :
                  mission \in SquadMissions}
    /\ redis = [EmptyRedis EXCEPT !.raw[1] = MissionCachedInfo(db[1], context.mapping)]
    /\ budget = [bounded |-> TRUE, calls |-> 0, changes |-> 0, faults |-> 0]

\* CachedGlobalKPIState::generate_and_write: the state is generated from the
\* snapshots and written, unless the generation panics.
GenerateGlobal ==
    /\ ret = Return("none", "None")
    /\ LET state == CachedGlobalKPIState(<<redis.raw[1]>>, context.kpi_config,
                                         context.mapping.scout_special_player_set)
       IN  IF state = GeneratePanic
             THEN /\ redis' = redis
                  /\ ret' = Return("generate", Panic)
             ELSE /\ redis' = [redis EXCEPT !.global = state]
                  /\ ret' = Return("generate", Ok)
    /\ UNCHANGED <<queue, schedulerVars, context, db, idSnap, allNext, allSent,
                   historyVars, budget>>

SpecGlobal == InitGlobal /\ [][GenerateGlobal]_vars

----------------------------------------------------------------------------
(* Freshness of the snapshot layers *)

\* Every mission of the relational store has a MissionCachedInfo made from its
\* current rows and the current mapping.
RawFresh ==
    \A m \in MissionList(db) :
        redis.raw[m] = MissionCachedInfo_generate(db[m], context.mapping)

\* Every mission of the relational store has a MissionKPICachedInfo made from
\* the MissionCachedInfo now stored, the current kpi_config and mapping.
KpiFresh ==
    \A m \in MissionList(db) :
        redis.kpi[m] =
            MissionKPICachedInfo_generate(redis.raw[m], context.kpi_config, context.mapping)

LayersFresh == RawFresh /\ KpiFresh

\* The stored global state is made from the two layers now stored.
GlobalFresh ==
    LET list == MissionList(db)
    IN  redis.global =
            CachedGlobalKPIState_generate([m \in list |-> redis.raw[m]],
                                          [m \in list |-> redis.kpi[m]],
                                          context.kpi_config, context.mapping)

\* The step in which the worker runs the generator of a GlobalKPIState job.
GlobalJobRuns ==
    /\ workerPc = "locked"
    /\ job = GlobalKPIState
    /\ workerPc' # "locked"

\* The step in which a GlobalKPIState job generates and stores the global state.
GlobalJobSucceeds ==
    /\ GlobalJobRuns
    /\ workerPc' = "generated"
    /\ result'.outcome = Ok

----------------------------------------------------------------------------
(* Properties *)

\* C1: at any moment at most one cache generation is executing, whatever the
\* interleaving of try_schedule and try_schedule_all calls.
C1_AtMostOneGeneration == Len(executing) <= 1

\* A generation is executing while further accepted requests wait in the channel.
C1_Witness == Len(executing) = 1 /\ Len(queue) >= 2

\* C2: try_schedule never waits. With fewer than 8 requests pending it appends
\* the request to the tail of the queue and returns Accepted; with 8 pending
\* it returns Busy and the queue, hence every accepted request, stays as it is.
C2_TryScheduleNeverWaits ==
    /\ [](\A k \in CacheType : ENABLED TrySchedule(k))
    /\ [][\A k \in CacheType : TrySchedule(k) =>
            IF Len(queue) < QueueCapacity
              THEN queue' = Append(queue, k) /\ ret'.value = Accepted
              ELSE queue' = queue /\ ret'.value = Busy]_vars

\* A try_schedule call has returned Busy on a channel holding 8 requests.
C2_Witness ==
    /\ ret = Return("try_schedule", Busy)
    /\ Len(queue) = QueueCapacity

\* C3: under a fair worker every accepted request is eventually received,
\* run, and its outcome recorded in the status map.
C3_AcceptedIsEventuallyRecorded ==
    \A k \in CacheType :
        (\E i \in 1..Len(queue) : queue[i] = k)
            ~> (workerPc = "recorded" /\ job = k)

\* C4: whatever makes a job fail, a data-integrity error included, the worker
\* thread does not terminate: it records the failure and goes on.
C4_WorkerNeverTerminates == workerPc # "dead"

\* C5: a job that ends with a failure outcome has written nothing: the cache
\* store is exactly what it was when the job began.
C5_FailedJobWritesNothing ==
    (workerPc = "generated" /\ result.outcome \in {InternalError, ConfigError})
        => redis = jobStart

\* C6: try_schedule_all sends MissionRaw, MissionKPIRaw, GlobalKPIState in that
\* order; it returns Accepted only with all three enqueued; at the first kind
\* that finds the channel full it returns Busy, attempts no later kind and
\* leaves the kinds it enqueued in the queue.
C6_TryScheduleAllStopsAtFirstFull ==
    /\ [](/\ allSent = SubSeq(cache_type_list, 1, Len(allSent))
          /\ (allNext = 0 /\ ret = Return("try_schedule_all", Accepted))
                => allSent = cache_type_list)
    /\ [][(TryScheduleAll /\ Len(queue) = QueueCapacity) =>
            /\ queue' = queue
            /\ allNext' = 0
            /\ ret' = Return("try_schedule_all", Busy)
            /\ allSent' = (IF allNext = 0 THEN <<>> ELSE allSent)]_vars

\* A try_schedule_all call has returned Busy at its third kind, the two kinds
\* it enqueued still at the tail of the full queue.
C6_Witness ==
    /\ ret = Return("try_schedule_all", Busy)
    /\ allSent = <<MissionRaw, MissionKPIRaw>>
    /\ Len(queue) = QueueCapacity
    /\ SubSeq(queue, QueueCapacity - 1, QueueCapacity) = allSent

\* C7: an accepted request leaves the queue only when the worker receives it,
\* head first, to run its generator: requests run in the order of acceptance
\* and none is dropped.
C7_FifoNoneDropped ==
    [][queue' # queue =>
          \/ \E k \in CacheType : queue' = Append(queue, k)
          \/ /\ queue # <<>>
             /\ queue' = Tail(queue)
             /\ job' = Head(queue)
             /\ workerPc' = "dequeued"]_vars

\* C8: after MissionRaw, MissionKPIRaw and GlobalKPIState jobs ran in that
\* order, all with success and with no change of rows or context, the stored
\* global state is made from the MissionKPIRaw entries of the second job, and
\* these from the MissionRaw entries of the first: no layer is stale.
C8_NoLayerStale ==
    chain = Len(cache_type_list) => (LayersFresh /\ GlobalFresh)

\* The three jobs ran in order on a store that holds a mission, and the worker
\* is back at the top of its loop.
C8_Witness ==
    /\ chain = Len(cache_type_list)
    /\ MissionList(db) # {}
    /\ workerPc = "recv"

\* C9 as stated: every GlobalKPIState job that generates the global state has
\* read fresh snapshot layers, whatever the schedule calls, loads and context
\* updates before it.
C9_GlobalJobReadsFreshLayers == [][GlobalJobSucceeds => LayersFresh]_vars

\* C9 amended: a GlobalKPIState job that runs right after a successful
\* MissionRaw job and a successful MissionKPIRaw job, with no change of rows or
\* context since the MissionRaw job was received, reads fresh snapshot layers.
C9_GlobalJobAfterChainReadsFreshLayers ==
    [][(GlobalJobRuns /\ chain = 2) => LayersFresh]_vars

\* A GlobalKPIState job has generated the global state at the end of such a
\* run, on a store that holds a mission.
C9_Witness ==
    /\ workerPc = "generated"
    /\ job = GlobalKPIState
    /\ result.outcome = Ok
    /\ chain = Len(cache_type_list)
    /\ MissionList(db) # {}

\* C10: with no kpi_config a MissionKPIRaw or GlobalKPIState job ends with
\* ConfigError, whatever the state of the stores, before any store is touched,
\* and writes nothing.
C10_RefusedUpFront ==
    (workerPc = "generated" /\ job \in {MissionKPIRaw, GlobalKPIState}
        /\ context.kpi_config = NoConfig)
        => (result.outcome = ConfigError /\ ~result.touched /\ redis = jobStart)

\* The step in which the worker inserts a finished job's outcome.
WorkerRecordStep == workerPc = "generated" /\ workerPc' = "recorded"

\* C11: every caller-side operation can complete while a generator is
\* executing: none waits for the generation's store I/O.
C11_CallersNeverWaitOnGeneration ==
    Len(executing) = 1 =>
        /\ ENABLED GetMapping
        /\ ENABLED GetKpiConfig
        /\ ENABLED GetCacheStatusAll
        /\ \A k \in CacheType : ENABLED GetCacheStatus(k)
        /\ CanCall => (ENABLED TryScheduleAll /\ \A k \in CacheType : ENABLED TrySchedule(k))
        /\ CanChange => /\ \A mapping \in 1..MaxMapping : ENABLED UpdateMapping(mapping)
                        /\ \A kpi_config \in 1..MaxConfig : ENABLED UpdateKpiConfig(kpi_config)

\* C12: get_cache_status and get_cache_status_all can complete while a
\* generator is running (the worker holds the status lock only from the insert
\* of a finished job's outcome), they return the table's current content and
\* change nothing.
C12_StatusReadsNeverBlockOnGeneration ==
    /\ [](Len(executing) = 1 =>
            /\ statusLock = "free"
            /\ ENABLED GetCacheStatusAll
            /\ \A k \in CacheType : ENABLED GetCacheStatus(k))
    /\ [][/\ GetCacheStatusAll => ret'.reply = cache_status
          /\ \A k \in CacheType : GetCacheStatus(k) => ret'.reply \in {cache_status[j] : j \in CacheType}
          /\ (GetCacheStatusAll \/ \E k \in CacheType : GetCacheStatus(k))
                => UNCHANGED <<queue, schedulerVars, dataVars>>]_vars

\* A status query returned the table, holding an earlier job's outcome, while
\* a generator was running.
C12_Witness ==
    /\ ret.op = "get_cache_status_all"
    /\ ret.during = MissionKPIRaw
    /\ ret.reply[MissionRaw] = Ok
    /\ Len(executing) = 1

\* C13: a job sees one value of the context for its whole duration: the context
\* does not change while a generator executes, and what a job writes is made
\* from the context in place when it runs, the latest update included.
C13_JobSeesOneContext ==
    /\ [][Len(executing) = 1 => context' = context]_vars
    /\ [](workerPc \in {"generated", "recorded", "cleared"} =>
            /\ \A m \in Missions :
                /\ redis.raw[m] # jobStart.raw[m] => redis.raw[m].mapping = context.mapping
                /\ redis.kpi[m] # jobStart.kpi[m] =>
                      /\ redis.kpi[m].mapping = context.mapping
                      /\ redis.kpi[m].kpi_config = context.kpi_config
            /\ redis.global # jobStart.global =>
                  /\ redis.global.mapping = context.mapping
                  /\ redis.global.kpi_config = context.kpi_config)

\* A job received before an update of the mapping, and run after it, wrote
\* entries made with the new mapping.
C13_Witness ==
    /\ workerPc = "generated"
    /\ job = MissionRaw
    /\ dirty
    /\ context.mapping = MaxMapping
    /\ \E m \in Missions : redis.raw[m] # jobStart.raw[m]

\* C14: try_schedule returns Dead exactly when the worker thread has
\* terminated; while the worker is alive it returns Accepted or Busy.
C14_DeadIffWorkerTerminated ==
    [][\A k \in CacheType : TrySchedule(k) =>
          /\ ret'.value = Dead <=> workerPc = "dead"
          /\ ret'.value \in {Accepted, Busy, Dead}]_vars

\* A try_schedule call returned Dead after the worker thread ended.
C14_Witness ==
    /\ ret = Return("try_schedule", Dead)
    /\ workerPc = "dead"

\* C15: the status table changes only when the worker inserts a finished job's
\* outcome: that step replaces the entry of the job's kind and leaves the
\* other entries as they are; no other operation changes the table.
C15_StatusWrittenOnlyByWorker ==
    [][IF WorkerRecordStep
         THEN cache_status' = [cache_status EXCEPT ![job] = result.outcome]
         ELSE cache_status' = cache_status]_vars

\* The worker inserted the outcome of a job while the table held the outcome
\* of a job of another kind.
C15_Witness ==
    /\ workerPc = "recorded"
    /\ cache_status[job] = result.outcome
    /\ \E k \in CacheType \ {job} : cache_status[k] # Never

\* The keys of the per-player sub-maps of a MissionCachedInfo.
SubMapPlayers(info) ==
    DOMAIN info.kill_info \cup DOMAIN info.damage_info \cup DOMAIN info.resource_info
        \cup DOMAIN info.supply_info \cup DOMAIN info.revive_count \cup DOMAIN info.death_count

\* C17: in every MissionCachedInfo every player that is a key of the kill,
\* damage, resource, supply, revive or death map is a key of player_index,
\* whatever the rows of the mission.
C17_SubMapPlayersArePresent ==
    redis.raw[1] # Nil => SubMapPlayers(redis.raw[1]) \subseteq DOMAIN redis.raw[1].player_index

\* The combine-table image of a recorded entity id.
Image(id) ==
    IF id \in DOMAIN context.mapping.entity_combine
      THEN context.mapping.entity_combine[id] ELSE id

\* The kill rows, and the damage dealt by damage rows with a player causer and
\* an entity taker, of player p whose entity has image key.
KillRowsUnder(p, key) ==
    {i \in 1..Len(db[1].rows) :
        LET r == db[1].rows[i]
        IN  r.kind = "kill" /\ r.player_id = p /\ Image(r.entity) = key}

DamageRowsUnder(p, key) ==
    {i \in 1..Len(db[1].rows) :
        LET r == db[1].rows[i]
        IN  /\ r.kind = "damage" /\ r.causer_type = 1 /\ r.causer_id = p
            /\ r.taker_type # 1 /\ Image(r.taker) = key}

RECURSIVE SumDamage(_)
SumDamage(indices) ==
    IF indices = {} THEN 0
    ELSE LET i == CHOOSE x \in indices : TRUE
         IN  db[1].rows[i].damage + SumDamage(indices \ {i})

\* The table combines ENEMY_A into ENEMY_GROUP, a representative that is not
\* blacklisted, combined into nothing, and the image of no other id.
ScenarioTable ==
    /\ Image("ENEMY_A") = "ENEMY_GROUP"
    /\ {e \in Entities : Image(e) = "ENEMY_GROUP"} = {"ENEMY_A", "ENEMY_GROUP"}
    /\ {e \in Entities : Image(e) = "ENEMY_A"} = {}
    /\ "ENEMY_GROUP" \notin context.mapping.entity_blacklist_set

C16_NineComponentsForEveryPresentPlayer ==
    redis.kpi[1] # Nil =>
        /\ DOMAIN redis.kpi[1].raw_kpi_data = DOMAIN redis.raw[1].player_index
        /\ \A p \in DOMAIN redis.kpi[1].raw_kpi_data :
              /\ DOMAIN redis.kpi[1].raw_kpi_data[p] =
                    {"Kill", "Damage", "Priority", "Revive", "Death", "FriendlyFire", "Nitra",
                     "Supply", "Minerals"}
              /\ \A c \in DOMAIN redis.kpi[1].raw_kpi_data[p] :
                    DOMAIN redis.kpi[1].raw_kpi_data[p][c] =
                        {"source_value", "weighted_value", "mission_total_weighted_value",
                         "raw_index"}

\* Player 2 is present without a row of its own while player 1 has rows, and
\* has its 9 components.
C16_Witness ==
    /\ redis.kpi[1] # Nil
    /\ DOMAIN redis.raw[1].player_index = {1, 2}
    /\ 1 \in DOMAIN redis.raw[1].kill_info
    /\ 2 \notin SubMapPlayers([redis.raw[1] EXCEPT !.revive_count = EmptyMap,
                                                   !.death_count = EmptyMap])
    /\ Cardinality(DOMAIN redis.kpi[1].raw_kpi_data[2]) = 9

RatioComponents == {"Kill", "Damage", "Priority", "Revive", "Death", "Nitra", "Minerals", "Supply"}

Abs(n) == IF n < 0 THEN -n ELSE n

\* C19: the raw_index of every ratio-based component lies in [-1.0, 1.0], and
\* whenever the mission-wide denominator is below 1e-3 it is the fallback (1.0
\* for Revive, 0.0 for the others) and no division took place.
C19_RawIndexBoundedAndFallback ==
    redis.kpi[1] # Nil =>
        \A p \in DOMAIN redis.kpi[1].raw_kpi_data : \A c \in RatioComponents :
            LET data == redis.kpi[1].raw_kpi_data[p][c]
            IN  /\ Abs(data.raw_index.num) <= Abs(data.raw_index.den)
                /\ data.mission_total_weighted_value < FLOAT_EPSILON =>
                      /\ ~data.raw_index.divided
                      /\ data.raw_index.num = (IF c = "Revive" THEN 1 ELSE 0)

\* A factor, the quotient num / den: is it exactly 1.0, is it at least 1.0
\* (infinity is, NaN is not).
IsOne(f) == f.den # 0 /\ f.num = f.den

AtLeastOne(f) == IF f.den = 0 THEN f.num > 0 ELSE f.num * f.den >= f.den * f.den

\* C20: in every generated global state, for each of the 5 correctable
\* components the roles with the smallest average have correction factor
\* exactly 1.0 and every role's factor is at least 1.0, whatever the averages.
C20_MinimalRoleHasFactorOne ==
    (redis.global # Nil /\ redis.global.character_correction_factor # EmptyMap) =>
        LET factor == redis.global.character_correction_factor
        IN  \A item \in {"Damage", "Priority", "Kill", "Nitra", "Minerals"} :
              \A r \in DOMAIN factor :
                /\ (\A q \in DOMAIN factor :
                        factor[r][item].value.num * factor[q][item].value.den
                            <= factor[q][item].value.num * factor[r][item].value.den)
                      => IsOne(factor[r][item].correction_factor)
                /\ AtLeastOne(factor[r][item].correction_factor)

\* C26: a read of a cache key answers NoData when the key was never generated,
\* MalformedData when the stored bytes do not decode, and InternalError when the
\* store cannot be reached.
C26_ReadOutcomesDistinguished ==
    ret.op = "get_from_redis" =>
        /\ (ret.fault \in {"exists", "get"}) => ret.result = [err |-> InternalError]
        /\ (ret.fault \notin {"exists", "get"} /\ ret.stored = Nil)
              => ret.result = [err |-> NoData]
        /\ (ret.fault = "undecodable" /\ ret.stored # Nil)
              => ret.result = [err |-> MalformedData]

C28_WorkingFlagBracketsJob ==
    /\ workerPc \in {"locked", "idsLoaded", "generated", "recorded"} => working
    /\ ~JobInProgress => ~working
    /\ (workerPc = "cleared" /\ ~working) => cache_status[job] = result.outcome

\* The step in which the worker runs the MissionKPIRaw generator.
KpiJobStep == workerPc = "locked" /\ job = MissionKPIRaw /\ workerPc' # "locked"

\* C29: a MissionKPIRaw job succeeds only if every mission of the relational
\* store has a mission_raw entry; when it succeeds it has written for each of
\* those missions the mission_kpi_raw entry derived from that mission_raw entry;
\* when a mission lacks its mission_raw entry the job fails and has written
\* nothing.
C29_KpiJobNeedsEveryRawEntry ==
    [][KpiJobStep =>
        /\ (workerPc' = "generated" /\ result'.outcome = Ok) =>
              \A m \in MissionList(db) :
                  /\ redis.raw[m] # Nil
                  /\ redis'.kpi[m] = [raw |-> redis.raw[m], kpi_config |-> context.kpi_config,
                                      mapping |-> context.mapping]
        /\ (\E m \in MissionList(db) : redis.raw[m] = Nil) =>
              /\ workerPc' = "generated"
              /\ result'.outcome \in {InternalError, ConfigError}
              /\ redis' = redis]_vars

\* A MissionKPIRaw job has succeeded with two missions in the relational store,
\* each with its mission_kpi_raw entry written by this job.
C29_Witness ==
    /\ workerPc = "generated"
    /\ job = MissionKPIRaw
    /\ result.outcome = Ok
    /\ MissionList(db) = Missions
    /\ \A m \in Missions : redis.kpi[m] # Nil /\ jobStart.kpi[m] = Nil

\* ---------------------------------------------------------------------------
\* CachedGlobalKPIState::generate, stage C: the percentile transform of one
\* role and component.  Source values are fixed-point (One is 1.00), rank cut
\* points are fractions over RankDen (exact in binary floating point), target
\* values are integers, coefficients are fractions; a fraction whose
\* denominator is 0 is what a floating-point division by zero leaves (an
\* infinity or a NaN).
\* ---------------------------------------------------------------------------

MaxRanked == 3

MaxRanges == 2

RankDen == 4

IndexValues == {0, One \div 4, One \div 2, One}

\* index_list after sort_unstable_by: one value per ranked player, ascending.
SourceDistributions ==
    {list \in UNION {[1..n -> IndexValues] : n \in 1..MaxRanked} :
        \A i \in 1..(Len(list) - 1) : list[i] <= list[i + 1]}

TargetRanges == {<<0, 50>>, <<50, 100>>}

\* KPIConfig.transform_range: rank ranges that follow one another.
TransformRangeConfigs ==
    {config \in UNION {[1..n -> [rank_range : (0..RankDen) \X (0..RankDen),
                                 transform_range : TargetRanges]] : n \in 1..MaxRanges} :
        /\ \A i \in DOMAIN config : config[i].rank_range[1] < config[i].rank_range[2]
        /\ \A i \in 1..(Len(config) - 1) :
              config[i].rank_range[2] = config[i + 1].rank_range[1]}

Rat(num, den) == [num |-> num, den |-> den]

RatMul(x, y) == Rat(x.num * y.num, x.den * y.den)

RatAdd(x, y) == Rat(x.num * y.den + y.num * x.den, x.den * y.den)

RatSub(x, y) == Rat(x.num * y.den - y.num * x.den, x.den * y.den)

\* Equality of two floating-point results: an infinity or a NaN equals no
\* finite value.
RatEq(x, y) == x.den # 0 /\ y.den # 0 /\ x.num * y.den = y.num * x.den

\* (index_list.len() as f64 * rank) as usize
rank_index(len, rank) == (len * rank) \div RankDen

\* match source_max - source_min { 0.0 => ((max + min) / (2.0 * source_min), 0.0),
\*                                 _ => (a, transform_min - a * source_min) }
transform_coefficient(source_min, source_max, transform_min, transform_max) ==
    IF source_max - source_min = 0
      THEN [a |-> Rat(transform_max + transform_min, 2 * source_min), b |-> Rat(0, 1)]
      ELSE LET a == Rat(transform_max - transform_min, source_max - source_min)
           IN  [a |-> a, b |-> RatSub(Rat(transform_min, 1), RatMul(a, Rat(source_min, 1)))]

IndexTransformRange(index_list, range_config) ==
    LET source_list_begin_index == rank_index(Len(index_list), range_config.rank_range[1])
        source_list_end_index == rank_index(Len(index_list), range_config.rank_range[2])
        source_min == IF source_list_begin_index = 0 THEN 0
                      ELSE index_list[source_list_begin_index + 1]
        source_max == IF source_list_end_index < Len(index_list)
                        THEN index_list[source_list_end_index + 1]
                        ELSE One
    IN  [rank_range            |-> range_config.rank_range,
         source_range          |-> <<source_min, source_max>>,
         transform_range       |-> range_config.transform_range,
         transform_coefficient |-> transform_coefficient(source_min, source_max,
                                       range_config.transform_range[1],
                                       range_config.transform_range[2]),
         player_count          |-> source_list_end_index - source_list_begin_index]

\* The segments of one role and component, in the order of the configuration.
transform_range(index_list, config_transform_range) ==
    [i \in DOMAIN config_transform_range |->
        IndexTransformRange(index_list, config_transform_range[i])]

\* y = ax + b
TransformAt(segment, x) ==
    RatAdd(RatMul(segment.transform_coefficient.a, Rat(x, 1)),
           segment.transform_coefficient.b)

\* The sorted distribution of one role and component is at hand; the
\* configuration holds the rank ranges.
InitTransform ==
    /\ queue = <<>>
    /\ workerPc = "recv"
    /\ job = NoJob
    /\ result = NoResult
    /\ working = FALSE
    /\ cache_status = [k \in CacheType |-> Never]
    /\ contextLock = "free"
    /\ statusLock = "free"
    /\ idSnap \in [source_distribution : SourceDistributions]
    /\ ret = Return("none", "None")
    /\ allNext = 0
    /\ allSent = <<>>
    /\ executing = <<>>
    /\ jobStart = EmptyRedis
    /\ chain = 0
    /\ dirty = FALSE
    /\ context \in [mapping : {1}, kpi_config : [transform_range : TransformRangeConfigs]]
    /\ db = [m \in Missions |-> NoMission]
    /\ redis = EmptyRedis
    /\ budget = [bounded |-> TRUE, calls |-> 0, changes |-> 0, faults |-> 0]

GenerateTransform ==
    /\ ret = Return("none", "None")
    /\ redis' = [redis EXCEPT !.global =
                    [transform_range |-> transform_range(idSnap.source_distribution,
                                                         context.kpi_config.transform_range)]]
    /\ ret' = Return("generate", Ok)
    /\ UNCHANGED <<queue, schedulerVars, context, db, idSnap, allNext, allSent,
                   historyVars, budget>>

SpecTransform == InitTransform /\ [][GenerateTransform]_vars

\* C21: the stored segments of a role and component are contiguous (a
\* segment's source_max is the next segment's source_min) and increasing in
\* source range, and every segment's line takes the value target_min at its
\* source_min and target_max at its source_max.
C21_SegmentsContiguousAndExact ==
    ret.op = "generate" =>
        LET segments == redis.global.transform_range
        IN  /\ \A i \in 1..(Len(segments) - 1) :
                  segments[i].source_range[2] = segments[i + 1].source_range[1]
            /\ \A i \in DOMAIN segments :
                  segments[i].source_range[1] <= segments[i].source_range[2]
            /\ \A i \in DOMAIN segments :
                  /\ RatEq(TransformAt(segments[i], segments[i].source_range[1]),
                           Rat(segments[i].transform_range[1], 1))
                  /\ RatEq(TransformAt(segments[i], segments[i].source_range[2]),
                           Rat(segments[i].transform_range[2], 1))

\* C25: a segment whose source_max equals its source_min is stored as a flat
\* function: slope 0, value the midpoint of the target range, and no division
\* by zero, also when both bounds are 0.
C25_EqualBoundsGiveFlatMidpoint ==
    ret.op = "generate" =>
        \A i \in DOMAIN redis.global.transform_range :
            LET segment == redis.global.transform_range[i]
                midpoint == Rat(segment.transform_range[1] + segment.transform_range[2], 2)
            IN  segment.source_range[1] = segment.source_range[2] =>
                    /\ segment.transform_coefficient.a.den # 0
                    /\ segment.transform_coefficient.b.den # 0
                    /\ segment.transform_coefficient.a.num = 0
                    /\ RatEq(TransformAt(segment, segment.source_range[1]), midpoint)

\* ---------------------------------------------------------------------------
\* The mission of two players in which one of them deals 100 damage to an
\* entity and 10 damage to the other player.
\* ---------------------------------------------------------------------------

OtherPlayer(player_id) == CHOOSE p \in Players : p # player_id

\* The two damage rows of the mission, in either order.
ScenarioRows ==
    UNION {LET entity_row == [kind |-> "damage", causer_type |-> 1, causer_id |-> causer,
                              taker_type |-> 2, taker |-> entity, damage |-> 100 * One]
               player_row == [kind |-> "damage", causer_type |-> 1, causer_id |-> causer,
                              taker_type |-> 1, taker |-> OtherPlayer(causer),
                              damage |-> 10 * One]
           IN  {<<entity_row, player_row>>, <<player_row, entity_row>>} :
              causer \in Players, entity \in Entities}

InitScenario ==
    /\ InitScheduler
    /\ context \in [mapping : [entity_blacklist_set : EntityBlacklists,
                               entity_combine : EntityCombineTables,
                               scout_special_player_set : ScoutSpecialPlayerSets],
                    kpi_config : KPIConfigs]
    /\ db \in {[m \in Missions |-> IF m = 1 THEN [player_info |-> pl, rows |-> rows]
                                             ELSE NoMission] :
                  pl \in {list \in PlayerInfoLists({0}) : DOMAIN list = Players},
                  rows \in ScenarioRows}
    /\ redis = [EmptyRedis EXCEPT !.raw[1] = MissionCachedInfo(db[1], context.mapping)]
    /\ budget = [bounded |-> TRUE, calls |-> 0, changes |-> 0, faults |-> 0]

SpecScenario == InitScenario /\ [][GenerateMissionKPI]_vars

\* The player who deals the damage, and whether the entity hit is outside the
\* blacklist under its combined key.
ScenarioCauser == db[1].rows[1].causer_id

ScenarioEntityCounted ==
    \E i \in DOMAIN db[1].rows :
        /\ db[1].rows[i].taker_type # 1
        /\ entity_combine_get(context.mapping.entity_combine, db[1].rows[i].taker)
               \notin context.mapping.entity_blacklist_set

\* index.num / index.den lies in [low, high] hundredths.
IndexWithin(index, low, high) ==
    LET num == IF index.den < 0 THEN -index.num ELSE index.num
        den == IF index.den < 0 THEN -index.den ELSE index.den
    IN  den # 0 /\ low * den <= 100 * num /\ 100 * num <= high * den

\* C23: in the mission of two players where one deals 100 damage to an entity
\* that is not blacklisted and 10 damage to the other player, that player's
\* damage total is 100, the friendly fire is 10 of an overall 110, and the
\* FriendlyFire index is 99 / (10/110 - 1) + 100, which is -8.9.
C23_ScenarioFriendlyFireIndex ==
    (redis.kpi[1] # Nil /\ ScenarioEntityCounted) =>
        LET data == redis.kpi[1].raw_kpi_data[ScenarioCauser]
        IN  /\ data["Damage"].source_value = 100 * One
            /\ data["FriendlyFire"].source_value = 10 * One
            /\ 110 * data["FriendlyFire"].source_value
                   = 10 * (data["Damage"].source_value + data["FriendlyFire"].source_value)
            /\ data["FriendlyFire"].raw_index.den # 0
            /\ 10 * data["FriendlyFire"].raw_index.num
                   = -89 * data["FriendlyFire"].raw_index.den
            /\ IndexWithin(data["FriendlyFire"].raw_index, -895, -885)

\* The KPI snapshot of the mission has been generated and the entity counts.
C23_Witness ==
    /\ redis.kpi[1] # Nil
    /\ ScenarioEntityCounted
    /\ redis.kpi[1].raw_kpi_data[ScenarioCauser]["FriendlyFire"].source_value = 10 * One

\* C23 as stated: the same totals, with a FriendlyFire index of about 8.1.
C23_ScenarioIndexAboutEight ==
    (redis.kpi[1] # Nil /\ ScenarioEntityCounted) =>
        LET data == redis.kpi[1].raw_kpi_data[ScenarioCauser]
        IN  /\ data["Damage"].source_value = 100 * One
            /\ data["FriendlyFire"].source_value = 10 * One
            /\ IndexWithin(data["FriendlyFire"].raw_index, 805, 815)

\* ---------------------------------------------------------------------------
\* MissionKPICachedInfo::generate: the manual adjustments of a mission, merged
\* by player.
\* ---------------------------------------------------------------------------

MaxAssigned == 3

\* The rows of the assigned_kpi table of one mission.  target_kpi_component 9
\* is no component; deltas are whole numbers, 0 for "no delta".
AssignedKPI ==
    [player_id : Players, target_kpi_component : {1, 9},
     kpi_component_delta_value : {0, 1}, total_delta_value : {0, 1, 2},
     note : {"", "note"}]

AssignedKPILists == UNION {[1..n -> AssignedKPI] : n \in 0..MaxAssigned}

NoDelta == [none |-> TRUE]

Some(value) == [some |-> value]

\* (target_kpi_component as usize).try_into(), KPIComponent::Kill when it fails
target_kpi_component(id) ==
    CASE id = 0 -> "Kill"
      [] id = 1 -> "Damage"
      [] id = 2 -> "Priority"
      [] id = 3 -> "Revive"
      [] id = 4 -> "Death"
      [] id = 5 -> "FriendlyFire"
      [] id = 6 -> "Nitra"
      [] id = 7 -> "Supply"
      [] id = 8 -> "Minerals"
      [] OTHER -> "Kill"

RECURSIVE assigned_kpi_info_keep_first(_, _)
\* A merge that keeps the overall delta it already has.
assigned_kpi_info_keep_first(mission_assigned_kpi_info, acc) ==
    IF mission_assigned_kpi_info = <<>> THEN acc
    ELSE LET assigned_info == Head(mission_assigned_kpi_info)
             entry == MapGet(acc, assigned_info.player_id,
                             [by_component |-> EmptyMap, overall |-> NoDelta,
                              note |-> assigned_info.note])
             with_component ==
                 IF assigned_info.kpi_component_delta_value # 0
                   THEN [entry EXCEPT !.by_component =
                            MapPut(@, target_kpi_component(assigned_info.target_kpi_component),
                                   assigned_info.kpi_component_delta_value)]
                   ELSE entry
             with_overall ==
                 IF assigned_info.total_delta_value # 0 /\ with_component.overall = NoDelta
                   THEN [with_component EXCEPT !.overall = Some(assigned_info.total_delta_value)]
                   ELSE with_component
         IN  assigned_kpi_info_keep_first(Tail(mission_assigned_kpi_info),
                 MapPut(acc, assigned_info.player_id, with_overall))

RECURSIVE assigned_kpi_info(_, _)
\* for assigned_info in mission_assigned_kpi_info.as_ref()
assigned_kpi_info(mission_assigned_kpi_info, acc) ==
    IF mission_assigned_kpi_info = <<>> THEN acc
    ELSE LET assigned_info == Head(mission_assigned_kpi_info)
             entry == MapGet(acc, assigned_info.player_id,
                             [by_component |-> EmptyMap, overall |-> NoDelta,
                              note |-> assigned_info.note])
             with_component ==
                 IF assigned_info.kpi_component_delta_value # 0
                   THEN [entry EXCEPT !.by_component =
                            MapPut(@, target_kpi_component(assigned_info.target_kpi_component),
                                   assigned_info.kpi_component_delta_value)]
                   ELSE entry
             with_overall ==
                 IF assigned_info.total_delta_value # 0
                   THEN [with_component EXCEPT !.overall = Some(assigned_info.total_delta_value)]
                   ELSE with_component
         IN  assigned_kpi_info(Tail(mission_assigned_kpi_info),
                 MapPut(acc, assigned_info.player_id, with_overall))

\* One mission without event rows and any adjustment rows for it.
InitAssigned ==
    /\ InitScheduler
    /\ context = [mapping |-> [entity_blacklist_set |-> {}, entity_combine |-> EmptyMap,
                               scout_special_player_set |-> {}],
                  kpi_config |-> CHOOSE c \in KPIConfigs : TRUE]
    /\ db \in {[m \in Missions |->
                   IF m = 1 THEN [player_info |-> pl, rows |-> <<>>, assigned_kpi |-> list]
                   ELSE NoMission] :
                  pl \in {x \in PlayerInfoLists({0}) : DOMAIN x = Players},
                  list \in AssignedKPILists}
    /\ redis = [EmptyRedis EXCEPT !.raw[1] = MissionCachedInfo(db[1], context.mapping)]
    /\ budget = [bounded |-> TRUE, calls |-> 0, changes |-> 0, faults |-> 0]

\* from_redis_all with the adjustment rows of the mission, in the order of the
\* table.
GenerateAssigned ==
    /\ redis.raw[1] # Nil
    /\ redis.kpi[1] = Nil
    /\ redis' = [redis EXCEPT !.kpi[1] =
            [assigned_kpi_info |-> assigned_kpi_info(db[1].assigned_kpi, EmptyMap)]]
    /\ UNCHANGED <<queue, schedulerVars, context, db, idSnap, ret, allNext, allSent,
                   historyVars, budget>>

SpecAssigned == InitAssigned /\ [][GenerateAssigned]_vars

\* The nonzero overall deltas of a player's adjustment rows, in row order.
NonzeroOverall(player_id) ==
    SelectSeq(db[1].assigned_kpi,
              LAMBDA r : r.player_id = player_id /\ r.total_delta_value # 0)

Weapons == {"WPN_A", "WPN_B"}

WeaponTables == {Weapons, Weapons \cup {"WPN_GROUP"}}

WeaponCombineTables ==
    {EmptyMap, [w \in {"WPN_A"} |-> "WPN_B"], [w \in {"WPN_A"} |-> "WPN_GROUP"]}

\* The rows of the damage_info table with their weapon_id column.
WeaponDamageInfo ==
    {[kind |-> "damage", causer_type |-> r.causer_type, causer_id |-> r.causer_id,
      taker_type |-> r.taker_type, taker |-> r.taker, damage |-> r.damage,
      weapon_id |-> w] : r \in DamageInfo, w \in Weapons}

WeaponMappings ==
    [entity_blacklist_set : {{}, {"ENEMY_B"}},
     entity_combine : {EmptyMap, [e \in {"ENEMY_A"} |-> "ENEMY_GROUP"]},
     weapon_combine : WeaponCombineTables]

\* weapon_combine.get(record_weapon_game_id).unwrap_or(record_weapon_game_id)
weapon_combine_get(weapon_combine, record_weapon_game_id) ==
    IF record_weapon_game_id \in DOMAIN weapon_combine
      THEN weapon_combine[record_weapon_game_id]
      ELSE record_weapon_game_id

\* weapon_details.entry(weapon_game_id).or_insert(HashMap::new())
\*     .entry(taker_game_id).or_insert(DamagePack {..}).total_amount += damage
AddWeaponDamage(outer, weapon_game_id, taker_game_id, taker_id, taker_type, weapon_id, damage) ==
    LET inner == MapGet(outer, weapon_game_id, EmptyMap)
        pack == MapGet(inner, taker_game_id,
                       [taker_id |-> taker_id, taker_type |-> taker_type,
                        weapon_id |-> weapon_id, total_amount |-> 0])
    IN  MapPut(outer, weapon_game_id,
               MapPut(inner, taker_game_id, [pack EXCEPT !.total_amount = @ + damage]))

RECURSIVE weapon_details_entities_only(_, _, _)
\* A weapon view that passes over the rows whose taker is a player.
weapon_details_entities_only(raw_damage_info_list, mapping, acc) ==
    IF raw_damage_info_list = <<>> THEN acc
    ELSE LET current_damage_info == Head(raw_damage_info_list)
             rest == Tail(raw_damage_info_list)
             entity_game_id ==
                 entity_combine_get(mapping.entity_combine, current_damage_info.taker)
             weapon_game_id ==
                 weapon_combine_get(mapping.weapon_combine, current_damage_info.weapon_id)
         IN  IF \/ current_damage_info.causer_type # 1
                \/ current_damage_info.taker_type = 1
                \/ entity_game_id \in mapping.entity_blacklist_set
               THEN weapon_details_entities_only(rest, mapping, acc)
               ELSE weapon_details_entities_only(rest, mapping,
                        AddWeaponDamage(acc, weapon_game_id, entity_game_id,
                                        current_damage_info.taker,
                                        current_damage_info.taker_type,
                                        current_damage_info.weapon_id,
                                        current_damage_info.damage))

RECURSIVE weapon_details(_, _, _)
\* The loop over raw_damage_info_list, on the side of weapon_details.
weapon_details(raw_damage_info_list, mapping, acc) ==
    IF raw_damage_info_list = <<>> THEN acc
    ELSE LET current_damage_info == Head(raw_damage_info_list)
             rest == Tail(raw_damage_info_list)
             entity_game_id ==
                 entity_combine_get(mapping.entity_combine, current_damage_info.taker)
             weapon_game_id ==
                 weapon_combine_get(mapping.weapon_combine, current_damage_info.weapon_id)
         IN  IF current_damage_info.causer_type # 1
               THEN weapon_details(rest, mapping, acc)
             ELSE IF current_damage_info.taker_type = 1
               THEN weapon_details(rest, mapping,
                        AddWeaponDamage(acc, weapon_game_id,
                                        id_to_player_name(current_damage_info.taker),
                                        current_damage_info.taker, 1,
                                        current_damage_info.weapon_id,
                                        current_damage_info.damage))
             ELSE IF entity_game_id \in mapping.entity_blacklist_set
               THEN weapon_details(rest, mapping, acc)
             ELSE weapon_details(rest, mapping,
                      AddWeaponDamage(acc, weapon_game_id, entity_game_id,
                                      current_damage_info.taker,
                                      current_damage_info.taker_type,
                                      current_damage_info.weapon_id,
                                      current_damage_info.damage))

\* weapon_details.into_iter().map(..).collect(): a WeaponPack for each weapon.
weapon_damage_info(details) ==
    [weapon_game_id \in DOMAIN details |->
        [weapon_id    |-> weapon_game_id,
         total_amount |-> SumValues([k \in DOMAIN details[weapon_game_id] |->
                                        details[weapon_game_id][k].total_amount]),
         detail       |-> details[weapon_game_id]]]

\* The damage part of MissionCachedInfo::generate; weapon_game_id_to_id
\* .get(weapon_game_id).unwrap() panics when a combined weapon is no row of the
\* weapon table.
MissionCachedInfoDamage(mission_raw_info, mapping, id_to_weapon_game_id) ==
    LET rows == RowsOfKind(mission_raw_info.rows, "damage")
        details == weapon_details(rows, mapping, EmptyMap)
    IN  IF \E weapon_game_id \in DOMAIN details : weapon_game_id \notin id_to_weapon_game_id
          THEN GeneratePanic
          ELSE [damage_info        |-> damage_info(rows, mapping, EmptyMap),
                weapon_damage_info |-> weapon_damage_info(details)]

\* The orders in which a HashMap with these keys can be iterated: the hasher
\* of every map is seeded anew (RandomState), so that any order can come up.
IterationOrders(keys) ==
    {order \in [1..Cardinality(keys) -> keys] :
        \A i, j \in DOMAIN order : i # j => order[i] # order[j]}

\* rmp_serde::to_vec on a map: the entries one after the other, in the order
\* of iteration.
SerializeMap(map) ==
    {[i \in DOMAIN order |-> <<order[i], map[order[i]]>>] :
        order \in IterationOrders(DOMAIN map)}

\* A map whose values hold maps: every inner map in an order of its own;
\* serialized_values[k] are the outputs the value of key k can give.
SerializeNested(map, serialized_values) ==
    {[i \in DOMAIN order |-> <<order[i], inner[order[i]]>>] :
        order \in IterationOrders(DOMAIN map),
        inner \in {f \in [DOMAIN map -> UNION {serialized_values[k] : k \in DOMAIN map}] :
                      \A k \in DOMAIN map : f[k] \in serialized_values[k]}}

SerializeWeaponPack(pack) ==
    {[weapon_id |-> pack.weapon_id, total_amount |-> pack.total_amount, detail |-> detail] :
        detail \in SerializeMap(pack.detail)}

\* The outputs rmp_serde::to_vec can give for the damage part of a snapshot.
Serialize(snapshot) ==
    {[damage_info |-> d, weapon_damage_info |-> w] :
        d \in SerializeNested(snapshot.damage_info,
                [p \in DOMAIN snapshot.damage_info |->
                    SerializeMap(snapshot.damage_info[p])]),
        w \in SerializeNested(snapshot.weapon_damage_info,
                [k \in DOMAIN snapshot.weapon_damage_info |->
                    SerializeWeaponPack(snapshot.weapon_damage_info[k])])}

\* One mission's damage rows, a mapping and a weapon table.
InitWeapon ==
    /\ queue = <<>>
    /\ workerPc = "recv"
    /\ job = NoJob
    /\ result = NoResult
    /\ working = FALSE
    /\ cache_status = [k \in CacheType |-> Never]
    /\ contextLock = "free"
    /\ statusLock = "free"
    /\ idSnap \in WeaponTables
    /\ ret = Return("none", "None")
    /\ allNext = 0
    /\ allSent = <<>>
    /\ executing = <<>>
    /\ jobStart = EmptyRedis
    /\ chain = 0
    /\ dirty = FALSE
    /\ context \in [mapping : WeaponMappings, kpi_config : {NoConfig}]
    /\ db \in {[m \in Missions |->
                   IF m = 1 THEN [player_info |-> pl, rows |-> rows] ELSE NoMission] :
                  pl \in {x \in PlayerInfoLists({0}) : DOMAIN x = Players},
                  rows \in UNION {[1..k -> WeaponDamageInfo] : k \in 0..MaxRows}}
    /\ redis = EmptyRedis
    /\ budget = [bounded |-> TRUE, calls |-> 0, changes |-> 0, faults |-> 0]

\* generate and cache_write_redis, run once and then once more on the same
\* rows, mapping and tables; jobStart keeps the store of before the last run.
GenerateWeapon ==
    /\ jobStart.raw[1] = Nil
    /\ LET snapshot == MissionCachedInfoDamage(db[1], context.mapping, idSnap)
       IN  IF snapshot = GeneratePanic
             THEN /\ ret = Return("none", "None")
                  /\ ret' = Return("generate", Panic)
                  /\ UNCHANGED <<redis, jobStart>>
             ELSE /\ \E serialized \in Serialize(snapshot) :
                        redis' = [redis EXCEPT !.raw[1] =
                                     [value |-> snapshot, serialized |-> serialized]]
                  /\ jobStart' = redis
                  /\ ret' = Return("generate", Ok)
    /\ UNCHANGED <<queue, schedulerVars, context, db, idSnap, allNext, allSent,
                   executing, chain, dirty, budget>>

SpecWeapon == InitWeapon /\ [][GenerateWeapon]_vars

\* C22: a snapshot regenerated from the same rows, in the same order, and the
\* same mapping tables has the same value and the same serialized output, byte
\* for byte, as the snapshot generated before.
C22_RegenerationBitwiseIdentical ==
    (jobStart.raw[1] # Nil /\ redis.raw[1] # Nil) =>
        /\ redis.raw[1].value = jobStart.raw[1].value
        /\ redis.raw[1].serialized = jobStart.raw[1].serialized

\* The damage rows that count: the causer is a player and the taker is a
\* player or an entity outside the blacklist under its combined key.
CountedDamageRows ==
    {i \in 1..Len(db[1].rows) :
        LET r == db[1].rows[i]
        IN  /\ r.causer_type = 1
            /\ \/ r.taker_type = 1
               \/ Image(r.taker) \notin context.mapping.entity_blacklist_set}

\* The sum of the total_amount of the packs of a map of maps of packs.
SumPacks(outer) ==
    SumValues([k \in DOMAIN outer |->
                  SumValues([x \in DOMAIN outer[k] |-> outer[k][x].total_amount])])

\* C30: in every snapshot each weapon's total_amount is the sum of its detail
\* entries, and the weapons' totals together equal the entries of the
\* per-player damage map together: both are the damage of the rows whose causer
\* is a player and whose taker is not a blacklisted entity, friendly fire
\* included.
C30_WeaponAndPlayerViewsAgree ==
    redis.raw[1] # Nil =>
        LET snapshot == redis.raw[1].value
            weapon_total ==
                SumValues([w \in DOMAIN snapshot.weapon_damage_info |->
                              snapshot.weapon_damage_info[w].total_amount])
        IN  /\ \A w \in DOMAIN snapshot.weapon_damage_info :
                  snapshot.weapon_damage_info[w].total_amount
                      = SumValues([k \in DOMAIN snapshot.weapon_damage_info[w].detail |->
                                      snapshot.weapon_damage_info[w].detail[k].total_amount])
            /\ weapon_total = SumPacks(snapshot.damage_info)
            /\ weapon_total = SumDamage(CountedDamageRows)

\* A snapshot of two counted rows, one of them friendly fire and one on an
\* entity, with different weapons after combination.
C30_Witness ==
    /\ redis.raw[1] # Nil
    /\ Cardinality(DOMAIN redis.raw[1].value.weapon_damage_info) = 2
    /\ Cardinality(CountedDamageRows) = 2
    /\ \E i \in CountedDamageRows : db[1].rows[i].taker_type = 1
    /\ \E i \in CountedDamageRows : db[1].rows[i].taker_type # 1

====
